---- MODULE Spec2Model ----
(***************************************************************************)
(* Model of the CA gateway test harness (testTop/pyTestsApp/gateway_tests): *)
(*   - conftest.py: find_differences, compare_structures, run_process,      *)
(*     context_set_env, file_test_environment and custom_environment        *)
(*   - test_dbe_value.py: the count and silence waits of                    *)
(*     test_value_no_deadband                                               *)
(*   - test_subscriptions.py: is_acceptable_nan_difference,                 *)
(*     deduplicate_events, compare_subscription_events and the two          *)
(*     subscription scenarios with their condition-variable waits.          *)
(***************************************************************************)
EXTENDS Integers, Sequences, FiniteSets, TLC

VARIABLES
    \* ---- run_process: its arguments, the main thread, the child process,
    \*      the thread running read_stdout, and counts of the teardown calls
    interactive, quiescence_period, wait_for, ppc, body, exc,
    proc, stdin_open, term_sent, pipe, emitted,
    slurp, event, lines, startup_lines, stdout,
    td_entered, n_sleep, n_close, n_terminate, n_wait, n_join,
    \* ---- run_process: the outcome of event.wait(startup_time), the time
    \*      spent in it and the time spent in the quiescence sleep
    startup, elapsed, slept,
    \* ---- find_differences applied to a pair of structures
    struct1, struct2, skip_keys_arg, diff_out,
    \* ---- deduplicate_events applied repeatedly to one log
    dd_in, dd_log, dd_prev, dd_n, dd_raised,
    \* ---- compare_subscription_events: arguments and outcome
    gateway_events, ioc_events, form, strict, nan_strict, deduplicate, zipped, verdict,
    \* ---- a second invocation whose logs differ from the first in timestamps only
    gateway_events2, ioc_events2, verdict2,
    \* ---- a subscription scenario: the test thread, the two callback threads
    \*      of the client library and the shared threading.Condition
    scenario, tpc, lock, waiter, event_list, cbpc, invoked, subscribed,
    target, nput, dropped, discards, timed_out,
    \* ---- test_value_no_deadband: the counter of the gateway callback, the
    \*      test thread, the callback thread and the threading.Condition
    events_received, delivered, cond_owner, cond_waiter, vpc, on_change_pc, at_silence,
    ioc_delivered,
    \* ---- context_set_env: os.environ and the scopes that are open
    environ, scopes, exited,
    \* ---- file_test_environment / custom_environment: the with statement
    fixture, fpc, steps, pending, entered,
    \* ---- the channel access scopes (local_channel_access and the two
    \*      single-endpoint ones) over os.environ, and the client library
    ca_stack, libca, used,
    \* ---- ca_subscription, pyepics_caget, pyepics_caput: one call
    operation, ch_form, timeout, ch_elapsed, chpc, connected, event_id, ch_outcome,
    n_connect, n_request, n_clear_subscription, n_clear_channel,
    \* ---- test_alarm_level: the record, the events on their way to the
    \*      gateway callback, the callback's counters and the test thread
    apc, written, severity, posted, queue, redelivered, sev_log,
    alarm_events_received, severity_unchanged, last_severity, alarm_notified,
    \* ---- reset_libca and the fixture fix_pyepics_reinitialization: the state
    \*      of the client library and the calls made on it
    ca_library, rpc, prior, calls, resets, tests,
    \* ---- util.caget_from_host and caget_many_from_host: the UDP sockets, the
    \*      channel with its circuit, the PVInfo and the exception in flight
    cg_mode, cg_given, cg_n, cg_i, cgpc, cg_exc, cfh_raised, own_sock, given_sock,
    chan, circuit_sock, circuit_entries, n_cleanup, cleanup_raised, pv_error, pv_value,
    cg_outcome,
    \* ---- test_ctrl_struct_value_monitor / test_cs_studio_value_and_prop_monitor:
    \*      the latest structure and the counter of each endpoint, the condition,
    \*      the two callbacks and the test thread with what it observed
    st_tpc, st_lock, st_notified, st_cb, st_delivered, st_count, st_struct, st_view,
    \* ---- ca_subscription_pair: the endpoint being worked on, the position in
    \*      its ca_subscription, the two channels, the two subscriptions, the
    \*      calls made on the client library and the exception in flight
    pair_ep, pair_pc, pair_chid, pair_event_id, pair_calls, pair_exc, pair_clear_raised,
    pair_delivered,
    \* ---- listen_on_sock: the listening socket, the peer and the bytes on
    \*      their way, the listener thread, the yielded list and the caller
    ls_sock, ls_peer, ls_stream, ls_sent, ls_pc, ls_client, read, ls_received, data,
    ls_main

diffVars == <<struct1, struct2, skip_keys_arg, diff_out>>
ddVars   == <<dd_in, dd_log, dd_prev, dd_n, dd_raised>>
cmpVars  == <<gateway_events, ioc_events, form, strict, nan_strict, deduplicate, zipped,
              verdict>>
tsVars   == <<gateway_events2, ioc_events2, verdict2>>
subVars  == <<scenario, tpc, lock, waiter, event_list, cbpc, invoked, subscribed,
              target, nput, dropped, discards, timed_out>>
procVars == <<interactive, quiescence_period, wait_for, ppc, body, exc,
              proc, stdin_open, term_sent, pipe, emitted,
              slurp, event, lines, startup_lines, stdout,
              td_entered, n_sleep, n_close, n_terminate, n_wait, n_join,
              startup, elapsed, slept>>
silVars  == <<events_received, delivered, cond_owner, cond_waiter, vpc, on_change_pc,
              at_silence, ioc_delivered>>
envVars  == <<environ, scopes, exited>>
fixVars  == <<fixture, fpc, steps, pending, entered>>
caVars   == <<ca_stack, libca, used>>
chanVars == <<operation, ch_form, timeout, ch_elapsed, chpc, connected, event_id, ch_outcome,
              n_connect, n_request, n_clear_subscription, n_clear_channel>>
alarmVars == <<apc, written, severity, posted, queue, redelivered, sev_log,
               alarm_events_received, severity_unchanged, last_severity, alarm_notified>>
resetVars == <<ca_library, rpc, prior, calls, resets, tests>>
cagetVars == <<cg_mode, cg_given, cg_n, cg_i, cgpc, cg_exc, cfh_raised, own_sock,
               given_sock, chan, circuit_sock, circuit_entries, n_cleanup, cleanup_raised,
               pv_error, pv_value, cg_outcome>>
structVars == <<st_tpc, st_lock, st_notified, st_cb, st_delivered, st_count, st_struct,
                st_view>>
pairVars == <<pair_ep, pair_pc, pair_chid, pair_event_id, pair_calls, pair_exc,
              pair_clear_raised, pair_delivered>>
listenVars == <<ls_sock, ls_peer, ls_stream, ls_sent, ls_pc, ls_client, read, ls_received,
                data, ls_main>>
ext4Vars == <<pairVars, listenVars>>
ext3Vars == <<resetVars, cagetVars, structVars, ext4Vars>>
ext2Vars == <<caVars, chanVars, alarmVars, ext3Vars>>
baseVars == <<procVars, diffVars, ddVars, cmpVars, tsVars, subVars, silVars, envVars,
              fixVars, caVars, chanVars, alarmVars>>
nonResetVars == <<baseVars, cagetVars, structVars, ext4Vars>>
nonCagetVars == <<baseVars, resetVars, structVars, ext4Vars>>
nonStructVars == <<baseVars, resetVars, cagetVars, ext4Vars>>
nonPairVars == <<baseVars, resetVars, cagetVars, structVars, listenVars>>
nonListenVars == <<baseVars, resetVars, cagetVars, structVars, pairVars>>
extVars  == <<silVars, envVars, fixVars, ext2Vars>>
vars     == <<procVars, diffVars, ddVars, cmpVars, tsVars, subVars, extVars>>

(***************************************************************************)
(* Bounds of the model.                                                     *)
(***************************************************************************)
\* lines a supervised process writes to its output
MaxLines == 2
\* startup_time of run_process, in units of time
StartupTime == 2
\* longest quiescence_period of run_process, in units of time
MaxQuiescence == 2
\* longest event log handed to compare_subscription_events
MaxLen == 2
\* longest event log handed to deduplicate_events
MaxDedupLen == 3
\* callback invocations per endpoint during one scenario
MaxDeliver == 3
\* values written by test_subscription_with_put (len(values))
MaxValues == 2
\* events test_value_no_deadband expects (11 in the source: the connection
\* and one per put)
ExpectedEvents == 2
\* context_set_env scopes open at the same time
MaxDepth == 2
\* PV names given to caget_many_from_host
MaxPvs == 2
\* events delivered to each callback of a subscription pair
MaxPairEvents == 1
\* chunks the caPutLog client sends on its connection
MaxChunks == 2
\* calls of reset_libca, and tests run, in one session
MaxResets == 3
MaxTests == 2
\* events the gateway delivers a second time in the alarm scenario
MaxRedeliver == 1
\* longest connection timeout of a channel operation, in ticks
MaxTimeout == 2
\* channel access scopes open at the same time
MaxScopes == 2
\* events the gateway delivers beyond the expected ones
MaxExtra == 2

(***************************************************************************)
(* Values carried by a structure (a pyepics callback's keyword arguments). *)
(* A value is a Python number (int/float, possibly NaN), a string, or an   *)
(* array-like object with .tolist() (a numpy array).  One uniform record   *)
(* shape is used: kind, and the cells c (one cell for a scalar).           *)
(***************************************************************************)
NaNCell == [nan |-> TRUE, n |-> 0]
NumCell(k) == [nan |-> FALSE, n |-> k]

Num(k) == [kind |-> "num", c |-> <<NumCell(k)>>]
NaN == [kind |-> "num", c |-> <<NaNCell>>]
Str(k) == [kind |-> "str", c |-> <<NumCell(k)>>]
Arr(cells) == [kind |-> "ndarray", c |-> cells]

\* hasattr(value, "tolist")
HasTolist(v) == v.kind = "ndarray"

\* tuple(value.tolist()): a tuple of Python objects created by this call (every
\* tuple of the model comes from here; PyEq accounts for the fresh objects).
ToTuple(v) == [kind |-> "tuple", c |-> v.c]

\* isinstance(value, (int, float))
IsNumber(v) == v.kind = "num"

\* math.isnan(value) for a number; it raises TypeError for anything else
IsNan(v) == v.c[1].nan

\* Python's value1 == value2.  NaN equals nothing (itself included).  Two
\* tuples are equal when they have the same length and their elements are
\* pairwise identical or equal; the NaN elements of two tolist() results are
\* distinct objects, so a tuple holding NaN equals no other tuple.
PyEq(v1, v2) ==
    /\ v1.kind = v2.kind
    /\ Len(v1.c) = Len(v2.c)
    /\ \A i \in 1..Len(v1.c) :
          /\ ~v1.c[i].nan
          /\ ~v2.c[i].nan
          /\ v1.c[i].n = v2.c[i].n

(***************************************************************************)
(* conftest.find_differences                                                *)
(***************************************************************************)
\* every key a structure of the model may carry, in Python's sorted() order
SortedKeys == <<"chid", "timestamp", "value">>

\* skip_keys = ["chid"] when the caller passes None
DefaultSkipKeys == {"chid"}

\* sorted(set(struct1).union(struct2))
UnionKeys(s1, s2) ==
    SelectSeq(SortedKeys, LAMBDA k : k \in (DOMAIN s1) \cup (DOMAIN s2))

\* try: math.isnan(value1) and math.isnan(value2) ... except TypeError: ...
\* The `continue` is taken only when both calls return True; a TypeError
\* (a string, a tuple) falls through to the comparison.
BothNan(value1, value2) ==
    /\ IsNumber(value1)
    /\ IsNan(value1)
    /\ IsNumber(value2)
    /\ IsNan(value2)

\* The generator, run to its end or to the RuntimeError of a missing key:
\* out holds the (key, value1, value2) triples yielded so far, raised says
\* which structure lacked a key ("none": the generator was exhausted).
RECURSIVE FindFrom(_, _, _, _, _)
FindFrom(s1, s2, skip_keys, keys, out) ==
    IF keys = <<>> THEN [raised |-> "none", out |-> out]
    ELSE LET key == Head(keys)
             rest == Tail(keys)
         IN  IF key \in skip_keys THEN FindFrom(s1, s2, skip_keys, rest, out)
             ELSE IF key \notin DOMAIN s1 THEN [raised |-> "struct1", out |-> out]
             ELSE IF key \notin DOMAIN s2 THEN [raised |-> "struct2", out |-> out]
             ELSE LET value2 == IF HasTolist(s2[key]) THEN ToTuple(s2[key]) ELSE s2[key]
                      value1 == IF HasTolist(s1[key]) THEN ToTuple(s1[key]) ELSE s1[key]
                  IN  IF BothNan(value1, value2)
                      THEN FindFrom(s1, s2, skip_keys, rest, out)
                      ELSE IF ~PyEq(value2, value1)
                      THEN FindFrom(s1, s2, skip_keys, rest,
                                    Append(out, <<key, value1, value2>>))
                      ELSE FindFrom(s1, s2, skip_keys, rest, out)

\* as find_differences, passing over a key that one structure lacks
find_differences_missing_skipped(s1, s2, skip_keys) ==
    FindFrom(s1, s2,
             skip_keys \cup (((DOMAIN s1) \ (DOMAIN s2)) \cup ((DOMAIN s2) \ (DOMAIN s1))),
             UnionKeys(s1, s2), <<>>)

find_differences(s1, s2, skip_keys) ==
    FindFrom(s1, s2, skip_keys, UnionKeys(s1, s2), <<>>)

(***************************************************************************)
(* conftest.compare_structures: one message line per yielded difference,   *)
(* joined; the text is empty exactly when nothing was yielded.  The lines  *)
(* are kept as the triples they are formatted from.                        *)
(***************************************************************************)
compare_structures(s1, s2) ==
    LET r == find_differences(s1, s2, DefaultSkipKeys)
    IN  [raised |-> r.raised # "none", differences |-> r.out]

(***************************************************************************)
(* test_subscriptions.is_acceptable_nan_difference                          *)
(***************************************************************************)
IsZero(v) == ~v.c[1].nan /\ v.c[1].n = 0

\* as is_acceptable_nan_difference, without the branch for value2 = NaN
is_acceptable_nan_difference_first_only(value1, value2) ==
    IF ~IsNumber(value1) \/ ~IsNumber(value2) THEN FALSE
    ELSE IF IsNan(value1) THEN IsZero(value2) \/ IsNan(value2)
    ELSE FALSE

is_acceptable_nan_difference(value1, value2) ==
    IF ~IsNumber(value1) \/ ~IsNumber(value2) THEN FALSE
    ELSE IF IsNan(value1) THEN IsZero(value2) \/ IsNan(value2)
    ELSE IF IsNan(value2) THEN IsZero(value1) \/ IsNan(value1)
    ELSE FALSE

\* all(is_acceptable_nan_difference(v1, v2) for _, v1, v2 in find_differences(a, b)):
\* "false" at the first unacceptable triple, "raise" when the generator
\* raises before that, "true" when it is exhausted.
AllAcceptable(s1, s2) ==
    LET r == find_differences(s1, s2, DefaultSkipKeys)
    IN  IF \E i \in 1..Len(r.out) :
              ~is_acceptable_nan_difference(r.out[i][2], r.out[i][3])
        THEN "false"
        ELSE IF r.raised # "none" THEN "raise"
        ELSE "true"

(***************************************************************************)
(* test_subscriptions.deduplicate_events                                    *)
(***************************************************************************)
RECURSIVE DedupFrom(_, _)
DedupFrom(result, rest) ==
    IF rest = <<>> THEN [raised |-> FALSE, events |-> result]
    ELSE LET ev == Head(rest)
             cmp == compare_structures(result[Len(result)], ev)
         IN  IF cmp.raised THEN [raised |-> TRUE, events |-> result]
             ELSE IF cmp.differences # <<>>
             THEN DedupFrom(Append(result, ev), Tail(rest))
             ELSE DedupFrom(result, Tail(rest))

\* as deduplicate_events, but removing from the list it iterates over: the
\* event that follows a removed one is never examined
RECURSIVE DedupSkipFrom(_, _, _)
DedupSkipFrom(result, prev, rest) ==
    IF rest = <<>> THEN [raised |-> FALSE, events |-> result]
    ELSE LET ev == Head(rest)
             cmp == compare_structures(prev, ev)
         IN  IF cmp.raised THEN [raised |-> TRUE, events |-> result]
             ELSE IF cmp.differences # <<>>
             THEN DedupSkipFrom(Append(result, ev), ev, Tail(rest))
             ELSE IF Tail(rest) = <<>> THEN [raised |-> FALSE, events |-> result]
             ELSE DedupSkipFrom(Append(result, Head(Tail(rest))), Head(Tail(rest)),
                                Tail(Tail(rest)))

deduplicate_events_skipping(events) ==
    IF events = <<>> THEN [raised |-> FALSE, events |-> <<>>]
    ELSE DedupSkipFrom(<<Head(events)>>, Head(events), Tail(events))

\* as deduplicate_events, but comparing with every event kept so far, not
\* only the last one
RECURSIVE DedupUniqueFrom(_, _)
DedupUniqueFrom(result, rest) ==
    IF rest = <<>> THEN [raised |-> FALSE, events |-> result]
    ELSE LET ev == Head(rest)
             cmps == {compare_structures(result[i], ev) : i \in 1..Len(result)}
         IN  IF \E c \in cmps : c.raised THEN [raised |-> TRUE, events |-> result]
             ELSE IF \A c \in cmps : c.differences # <<>>
             THEN DedupUniqueFrom(Append(result, ev), Tail(rest))
             ELSE DedupUniqueFrom(result, Tail(rest))

deduplicate_events_unique(events) ==
    IF events = <<>> THEN [raised |-> FALSE, events |-> <<>>]
    ELSE DedupUniqueFrom(<<Head(events)>>, Tail(events))

deduplicate_events(events) ==
    IF events = <<>> THEN [raised |-> FALSE, events |-> <<>>]
    ELSE DedupFrom(<<Head(events)>>, Tail(events))

(***************************************************************************)
(* test_subscriptions.compare_subscription_events                           *)
(* The outcome is a record: raises (an exception left the function), why   *)
(* (the return or raise statement that ended it) and idx (event_idx when   *)
(* the zip loop raised, else 0).                                            *)
(***************************************************************************)
Returns(why) == [raises |-> FALSE, why |-> why, idx |-> 0]
Raises(why) == [raises |-> TRUE, why |-> why, idx |-> 0]
RaisesAt(why, idx) == [raises |-> TRUE, why |-> why, idx |-> idx]

\* dict(event) followed by .pop("timestamp", None)
PopTimestamp(ev) == [k \in (DOMAIN ev) \ {"timestamp"} |-> ev[k]]

\* the events of one zipped pair as the loop body compares them
ForForm(ev, fm) == IF fm = "ctrl" THEN PopTimestamp(ev) ELSE ev

\* The body of the zip loop for one pair: "continue" or the raise that ends
\* the function (lines 170-209).
ComparePair(gateway_event, ioc_event, fm, nanstrict) ==
    LET g == ForForm(gateway_event, fm)
        i == ForForm(ioc_event, fm)
        cmp == compare_structures(g, i)
    IN  IF cmp.raised THEN "missing_key"
        ELSE IF cmp.differences = <<>> THEN "continue"
        ELSE IF AllAcceptable(g, i) = "true"
        THEN IF nanstrict THEN "nan_difference" ELSE "continue"
        ELSE "difference"

\* for event_idx, (gateway_event, ioc_event) in enumerate(zip(gw, ioc), 1)
RECURSIVE ZipFrom(_, _, _, _, _)
ZipFrom(gw, ioc, fm, nanstrict, idx) ==
    IF idx > Len(gw) \/ idx > Len(ioc) THEN [why |-> "exhausted", idx |-> 0]
    ELSE LET r == ComparePair(gw[idx], ioc[idx], fm, nanstrict)
         IN  IF r = "continue" THEN ZipFrom(gw, ioc, fm, nanstrict, idx + 1)
             ELSE [why |-> r, idx |-> idx]

ZipCompare(gw, ioc, fm, nanstrict) == ZipFrom(gw, ioc, fm, nanstrict, 1)

\* as LengthCheck, without the 2-versus-1 special case
LengthCheck_assert_only(gw, ioc, strct, nanstrict) ==
    IF Len(gw) = Len(ioc) THEN Returns("end")
    ELSE Raises("assert_length")

\* as LengthCheck, without the length assertion
LengthCheck_no_assert(gw, ioc, strct, nanstrict) ==
    IF Len(gw) = 2 /\ Len(ioc) = 1
    THEN LET cmp == compare_structures(gw[1], gw[2])
         IN  IF cmp.raised THEN Raises("missing_key")
             ELSE IF cmp.differences = <<>>
             THEN IF strct THEN Raises("duplicate_initial_event")
                  ELSE Returns("gateway_duplicates_initial")
             ELSE IF AllAcceptable(gw[1], gw[2]) = "true"
             THEN IF nanstrict THEN Raises("nan_handling_difference")
                  ELSE Returns("nan_and_zero_mixed")
             ELSE Raises("differences_in_events")
    ELSE Returns("end")

\* Lines 211-251: the 2-versus-1 special case, then the length assertion.
LengthCheck(gw, ioc, strct, nanstrict) ==
    IF Len(gw) = 2 /\ Len(ioc) = 1
    THEN LET cmp == compare_structures(gw[1], gw[2])
         IN  IF cmp.raised THEN Raises("missing_key")
             ELSE IF cmp.differences = <<>>
             THEN IF strct THEN Raises("duplicate_initial_event")
                  ELSE Returns("gateway_duplicates_initial")
             ELSE IF AllAcceptable(gw[1], gw[2]) = "true"
             THEN IF nanstrict THEN Raises("nan_handling_difference")
                  ELSE Returns("nan_and_zero_mixed")
             ELSE Raises("differences_in_events")
    ELSE IF Len(gw) = Len(ioc) THEN Returns("end")
    ELSE Raises("assert_length")

\* the two sequences handed to zip (lines 163-168): those of a call that
\* raised before the zip are empty
NoZip == [gateway |-> <<>>, ioc |-> <<>>]
ZipArguments(gw_events, ioc_evts, dedup) ==
    LET dd == IF dedup THEN deduplicate_events(gw_events)
              ELSE [raised |-> FALSE, events |-> gw_events]
    IN  IF dd.raised THEN NoZip ELSE [gateway |-> dd.events, ioc |-> ioc_evts]

compare_subscription_events(gw_events, fm, ioc_evts, strct, nanstrict, dedup) ==
    LET dd == IF dedup THEN deduplicate_events(gw_events)
              ELSE [raised |-> FALSE, events |-> gw_events]
    IN  IF dd.raised THEN Raises("missing_key")
        ELSE LET z == ZipCompare(dd.events, ioc_evts, fm, nanstrict)
             IN  IF z.why # "exhausted" THEN RaisesAt(z.why, z.idx)
                 ELSE LengthCheck(dd.events, ioc_evts, strct, nanstrict)

(***************************************************************************)
(* Inputs.  A structure maps some of the keys to values; an event log is a *)
(* sequence of structures.                                                  *)
(***************************************************************************)
Logs(events, n) == UNION {[1..k -> events] : k \in 0..n}

\* structures handed to find_differences: every key may be absent
DiffValues == {Num(0), Num(1), NaN, Str(1), Arr(<<NumCell(1)>>), Arr(<<NaNCell>>)}
DiffStamps == {Num(1), Num(2)}
DiffChids == {Num(1), Num(2)}
Structs ==
    UNION {
      UNION {
        UNION {
          { [k \in ((IF hc THEN {"chid"} ELSE {}) \cup (IF ht THEN {"timestamp"} ELSE {})
                     \cup (IF hv THEN {"value"} ELSE {})) |->
                 IF k = "chid" THEN c ELSE IF k = "timestamp" THEN t ELSE v]
            : c \in (IF hc THEN DiffChids ELSE {Num(0)}) }
          : hc \in BOOLEAN }
        : ht \in BOOLEAN, t \in DiffStamps }
      : hv \in BOOLEAN, v \in DiffValues }

\* skip_keys: None (the default ["chid"]), an empty list, or a longer list
SkipChoices == {DefaultSkipKeys, {}, {"chid", "timestamp"}}

\* events delivered to a subscription callback
Event(c, t, v) == [k \in {"chid", "timestamp", "value"} |->
                     IF k = "chid" THEN Num(c) ELSE IF k = "timestamp" THEN Num(t) ELSE v]
E0    == Event(1, 1, Num(0))
ENaN  == Event(2, 1, NaN)
E1    == Event(1, 1, Num(1))
E0t2  == Event(1, 2, Num(0))
EArr  == Event(1, 1, Arr(<<NaNCell>>))
ENoV  == [k \in {"chid", "timestamp"} |-> Num(1)]

CmpEvents == {E0, ENaN, E1, E0t2, EArr}
DedupEvents == CmpEvents \cup {ENoV}
TsEvents == {Event(1, t, Num(v)) : t \in {1, 2}, v \in {0, 1}}

\* the logs that differ from log in the values under "timestamp" only
SameButTimestamp(a, b) ==
    /\ DOMAIN a = DOMAIN b
    /\ \A k \in (DOMAIN a) \ {"timestamp"} : a[k] = b[k]
TsVariants(log) ==
    {l \in [1..Len(log) -> TsEvents] : \A i \in 1..Len(log) : SameButTimestamp(log[i], l[i])}

Pending == [done |-> FALSE, raises |-> FALSE, why |-> "pending", idx |-> 0]
Done(v) == [done |-> TRUE, raises |-> v.raises, why |-> v.why, idx |-> v.idx]

NoDiff == [called |-> FALSE, raised |-> "none", out |-> <<>>]

IdleDiff == struct1 = <<>> /\ struct2 = <<>> /\ skip_keys_arg = {} /\ diff_out = NoDiff
IdleDd == dd_in = <<>> /\ dd_log = <<>> /\ dd_prev = <<>> /\ dd_n = 0 /\ dd_raised = FALSE
IdleCmp ==
    /\ gateway_events = <<>> /\ ioc_events = <<>> /\ form = "time"
    /\ strict = FALSE /\ nan_strict = FALSE /\ deduplicate = TRUE /\ verdict = Pending
    /\ zipped = NoZip
IdleTs == gateway_events2 = <<>> /\ ioc_events2 = <<>> /\ verdict2 = Pending

Endpoints == {"ioc", "gateway"}
IdleSub ==
    /\ scenario = "none" /\ tpc = "idle" /\ lock = "free" /\ waiter = "none"
    /\ event_list = [ep \in Endpoints |-> <<>>]
    /\ cbpc = [ep \in Endpoints |-> "idle"]
    /\ invoked = [ep \in Endpoints |-> 0]
    /\ subscribed = [ep \in Endpoints |-> FALSE]
    /\ target = [ep \in Endpoints |-> 0]
    /\ nput = 0
    /\ dropped = [ep \in Endpoints |-> 0]
    /\ discards = 0
    /\ timed_out = FALSE

IdleProc ==
    /\ interactive = FALSE /\ quiescence_period = 0 /\ wait_for = "none"
    /\ ppc = "idle" /\ body = "none" /\ exc = "none"
    /\ proc = "none" /\ stdin_open = FALSE /\ term_sent = FALSE
    /\ pipe = <<>> /\ emitted = 0
    /\ slurp = "none" /\ event = FALSE /\ lines = <<>> /\ startup_lines = <<>>
    /\ stdout = <<>>
    /\ td_entered = 0 /\ n_sleep = 0 /\ n_close = 0 /\ n_terminate = 0
    /\ n_wait = 0 /\ n_join = 0
    /\ startup = "pending" /\ elapsed = 0 /\ slept = 0

EnvKeys == {"EPICS_CA_AUTO_ADDR_LIST", "EPICS_CA_ADDR_LIST"}
Unset == "<unset>"

IdleSil ==
    /\ events_received = 0 /\ delivered = 0 /\ cond_owner = "free"
    /\ cond_waiter = "none" /\ vpc = "idle" /\ on_change_pc = "idle"
    /\ at_silence = 0 /\ ioc_delivered = 0
IdleEnv == environ = [k \in EnvKeys |-> Unset] /\ scopes = <<>> /\ exited = <<>>
IdleFix ==
    /\ fixture = "none" /\ fpc = "idle" /\ steps = <<>> /\ pending = "none"
    /\ entered = <<>>
IdleCa == ca_stack = <<>> /\ libca = [k \in EnvKeys |-> Unset] /\ used = <<>>
IdleChan ==
    /\ operation = "none" /\ ch_form = "time" /\ timeout = 0 /\ ch_elapsed = 0
    /\ chpc = "idle" /\ connected = FALSE /\ event_id = FALSE
    /\ ch_outcome = "none" /\ n_connect = 0 /\ n_request = 0
    /\ n_clear_subscription = 0 /\ n_clear_channel = 0
IdleAlarm ==
    /\ apc = "idle" /\ written = 0 /\ severity = 0 /\ posted = 0 /\ queue = <<>>
    /\ redelivered = 0 /\ sev_log = <<>> /\ alarm_events_received = 0
    /\ severity_unchanged = 0 /\ last_severity = 0 /\ alarm_notified = FALSE
IdleReset ==
    /\ ca_library = "None" /\ rpc = "idle" /\ prior = "None" /\ calls = <<>>
    /\ resets = 0 /\ tests = 0
IdleCaget ==
    /\ cg_mode = "none" /\ cg_given = FALSE /\ cg_n = 0 /\ cg_i = 0 /\ cgpc = "idle"
    /\ cg_exc = "none" /\ cfh_raised = "none" /\ own_sock = "none" /\ given_sock = "none"
    /\ chan = FALSE /\ circuit_sock = "none" /\ circuit_entries = FALSE /\ n_cleanup = 0
    /\ cleanup_raised = FALSE
    /\ pv_error = "none" /\ pv_value = FALSE /\ cg_outcome = "none"
IdleStruct ==
    /\ st_tpc = "idle" /\ st_lock = "free" /\ st_notified = FALSE
    /\ st_cb = [ep \in {"ioc", "gateway"} |-> "idle"]
    /\ st_delivered = [ep \in {"ioc", "gateway"} |-> 0]
    /\ st_count = [ep \in {"ioc", "gateway"} |-> 0]
    /\ st_struct = [ep \in {"ioc", "gateway"} |-> 0]
    /\ st_view = <<>>
IdlePair ==
    /\ pair_ep = "ioc" /\ pair_pc = "idle"
    /\ pair_chid = [ep \in {"ioc", "gateway"} |-> "none"]
    /\ pair_event_id = [ep \in {"ioc", "gateway"} |-> "None"]
    /\ pair_calls = <<>> /\ pair_exc = "none" /\ pair_clear_raised = FALSE
    /\ pair_delivered = [ep \in {"ioc", "gateway"} |-> 0]
IdleListen ==
    /\ ls_sock = "none" /\ ls_peer = "idle" /\ ls_stream = <<>> /\ ls_sent = <<>>
    /\ ls_pc = "idle" /\ ls_client = "none" /\ read = <<>> /\ ls_received = <<>>
    /\ data = <<>>
    /\ ls_main = "idle"
IdleExt4 == IdlePair /\ IdleListen
IdleExt3 == IdleReset /\ IdleCaget /\ IdleStruct /\ IdleExt4
IdleBase ==
    /\ IdleDiff /\ IdleDd /\ IdleCmp /\ IdleTs /\ IdleSub /\ IdleProc
    /\ IdleSil /\ IdleEnv /\ IdleFix /\ IdleCa /\ IdleChan /\ IdleAlarm
IdleExt2 == IdleCa /\ IdleChan /\ IdleAlarm /\ IdleExt3
IdleExt == IdleSil /\ IdleEnv /\ IdleFix /\ IdleExt2

(***************************************************************************)
(* find_differences on a pair of structures.                                *)
(***************************************************************************)
InitDiff ==
    /\ struct1 \in Structs
    /\ struct2 \in Structs
    /\ skip_keys_arg \in SkipChoices
    /\ diff_out = NoDiff
    /\ IdleDd /\ IdleCmp /\ IdleTs /\ IdleSub /\ IdleProc /\ IdleExt

FindDifferences ==
    /\ ~diff_out.called
    /\ diff_out' = LET r == find_differences(struct1, struct2, skip_keys_arg)
                   IN  [called |-> TRUE, raised |-> r.raised, out |-> r.out]
    /\ UNCHANGED <<struct1, struct2, skip_keys_arg, ddVars, cmpVars, tsVars, subVars, procVars, extVars>>

SpecDiff == InitDiff /\ [][FindDifferences]_vars

(***************************************************************************)
(* deduplicate_events applied to a log, then to its own result.             *)
(***************************************************************************)
InitDedup ==
    /\ dd_in \in Logs(DedupEvents, MaxDedupLen)
    /\ dd_log = dd_in
    /\ dd_prev = <<>>
    /\ dd_n = 0
    /\ dd_raised = FALSE
    /\ IdleDiff /\ IdleCmp /\ IdleTs /\ IdleSub /\ IdleProc /\ IdleExt

Deduplicate ==
    /\ dd_n < 2
    /\ ~dd_raised
    /\ LET r == deduplicate_events(dd_log)
       IN  /\ dd_raised' = r.raised
           /\ dd_log' = IF r.raised THEN dd_log ELSE r.events
           /\ dd_prev' = dd_log
    /\ dd_n' = dd_n + 1
    /\ UNCHANGED <<dd_in, diffVars, cmpVars, tsVars, subVars, procVars, extVars>>

SpecDedup == InitDedup /\ [][Deduplicate]_vars

(***************************************************************************)
(* compare_subscription_events on a pair of logs.                           *)
(***************************************************************************)
InitCmp ==
    /\ gateway_events \in Logs(CmpEvents, MaxLen)
    /\ ioc_events \in Logs(CmpEvents, MaxLen)
    /\ form \in {"time", "ctrl"}
    /\ strict \in BOOLEAN
    /\ nan_strict \in BOOLEAN
    /\ deduplicate \in BOOLEAN
    /\ zipped = NoZip
    /\ verdict = Pending
    /\ IdleDiff /\ IdleDd /\ IdleTs /\ IdleSub /\ IdleProc /\ IdleExt

Compare ==
    /\ ~verdict.done
    /\ verdict' = Done(compare_subscription_events(
                         gateway_events, form, ioc_events, strict, nan_strict, deduplicate))
    /\ zipped' = ZipArguments(gateway_events, ioc_events, deduplicate)
    /\ UNCHANGED <<gateway_events, ioc_events, form, strict, nan_strict, deduplicate,
                   diffVars, ddVars, tsVars, subVars, procVars, extVars>>

SpecCmp == InitCmp /\ [][Compare]_vars

(***************************************************************************)
(* Two invocations for form "ctrl" whose logs differ in timestamps only.   *)
(***************************************************************************)
InitTs ==
    /\ gateway_events \in Logs(TsEvents, MaxLen)
    /\ ioc_events \in Logs(TsEvents, MaxLen)
    /\ gateway_events2 \in TsVariants(gateway_events)
    /\ ioc_events2 \in TsVariants(ioc_events)
    /\ form = "ctrl"
    /\ strict \in BOOLEAN
    /\ nan_strict \in BOOLEAN
    /\ deduplicate \in BOOLEAN
    /\ zipped = NoZip
    /\ verdict = Pending
    /\ verdict2 = Pending
    /\ IdleDiff /\ IdleDd /\ IdleSub /\ IdleProc /\ IdleExt

CompareVariant ==
    /\ ~verdict2.done
    /\ verdict2' = Done(compare_subscription_events(
                          gateway_events2, form, ioc_events2, strict, nan_strict, deduplicate))
    /\ UNCHANGED <<gateway_events2, ioc_events2, cmpVars, diffVars, ddVars, subVars, procVars, extVars>>

SpecTs == InitTs /\ [][Compare \/ CompareVariant]_vars

(***************************************************************************)
(* test_subscription_on_connection and test_subscription_with_put: the     *)
(* collection of events.  The test thread and the callbacks of the two     *)
(* subscriptions (run by the client library's threads, one per endpoint)   *)
(* share one threading.Condition.  An event is recorded as the number of   *)
(* the callback invocation that delivered it.                              *)
(***************************************************************************)
pureVars == <<procVars, diffVars, ddVars, cmpVars, tsVars, extVars>>

InitSub ==
    /\ scenario \in {"on_connection", "with_put"}
    /\ tpc = "subscribe_ioc"
    /\ lock = "free"
    /\ waiter = "none"
    /\ event_list = [ep \in Endpoints |-> <<>>]
    /\ cbpc = [ep \in Endpoints |-> "idle"]
    /\ invoked = [ep \in Endpoints |-> 0]
    /\ subscribed = [ep \in Endpoints |-> FALSE]
    /\ target = [ep \in Endpoints |-> 1]
    /\ nput = 0
    /\ dropped = [ep \in Endpoints |-> 0]
    /\ discards = 0
    /\ timed_out = FALSE
    /\ IdleDiff /\ IdleDd /\ IdleCmp /\ IdleTs /\ IdleProc /\ IdleExt

\* ---- the client library: a subscription update invokes the callback
CbInvoke(ep) ==
    /\ subscribed[ep]
    /\ cbpc[ep] = "idle"
    /\ invoked[ep] < MaxDeliver
    /\ invoked' = [invoked EXCEPT ![ep] = @ + 1]
    /\ cbpc' = [cbpc EXCEPT ![ep] = "called"]
    /\ UNCHANGED <<scenario, tpc, lock, waiter, event_list, subscribed, target, nput,
                   dropped, discards, timed_out, pureVars>>

\* as CbAcquire, entering the body without taking the lock
CbAcquire_no_lock(ep) ==
    /\ cbpc[ep] = "called"
    /\ cbpc' = [cbpc EXCEPT ![ep] = "locked"]
    /\ UNCHANGED <<scenario, tpc, lock, waiter, event_list, invoked, subscribed, target,
                   nput, dropped, discards, timed_out, pureVars>>

\* on_change: with cond:
CbAcquire(ep) ==
    /\ cbpc[ep] = "called"
    /\ lock = "free"
    /\ lock' = ep
    /\ cbpc' = [cbpc EXCEPT ![ep] = "locked"]
    /\ UNCHANGED <<scenario, tpc, waiter, event_list, invoked, subscribed, target, nput,
                   dropped, discards, timed_out, pureVars>>

\* on_change: event_list.append(...)
CbAppend(ep) ==
    /\ cbpc[ep] = "locked"
    /\ event_list' = [event_list EXCEPT ![ep] = Append(@, invoked[ep])]
    /\ cbpc' = [cbpc EXCEPT ![ep] = "appended"]
    /\ UNCHANGED <<scenario, tpc, lock, waiter, invoked, subscribed, target, nput,
                   dropped, discards, timed_out, pureVars>>

\* on_change: cond.notify(), then the with block releases the lock.  notify
\* wakes a waiter that is still waiting; a wait whose timeout has expired
\* returns False whatever is notified afterwards.
CbNotify(ep) ==
    /\ cbpc[ep] = "appended"
    /\ waiter' = IF waiter = "waiting" THEN "notified" ELSE waiter
    /\ lock' = "free"
    /\ cbpc' = [cbpc EXCEPT ![ep] = "idle"]
    /\ UNCHANGED <<scenario, tpc, event_list, invoked, subscribed, target, nput,
                   dropped, discards, timed_out, pureVars>>

\* ---- the test thread
\* ca_subscription_pair: the IOC subscription, then the gateway's
Subscribe ==
    /\ tpc \in {"subscribe_ioc", "subscribe_gateway"}
    /\ subscribed' = [subscribed EXCEPT ![IF tpc = "subscribe_ioc" THEN "ioc" ELSE "gateway"] = TRUE]
    /\ tpc' = IF tpc = "subscribe_ioc" THEN "subscribe_gateway" ELSE "lock_initial"
    /\ UNCHANGED <<scenario, lock, waiter, event_list, cbpc, invoked, target, nput,
                   dropped, discards, timed_out, pureVars>>

\* with cond: (before a target-count loop or the last drain loop)
TestAcquire ==
    /\ tpc \in {"lock_initial", "lock_put", "lock_drain"}
    /\ lock = "free"
    /\ lock' = "test"
    /\ tpc' = CASE tpc = "lock_initial" -> "check_initial"
                [] tpc = "lock_put" -> "check_put"
                [] OTHER -> "drain"
    /\ UNCHANGED <<scenario, waiter, event_list, cbpc, invoked, subscribed, target, nput,
                   dropped, discards, timed_out, pureVars>>

\* the loop condition of a target-count wait
Unmet ==
    IF tpc = "check_initial"
    THEN event_list["ioc"] = <<>> \/ event_list["gateway"] = <<>>
    ELSE Len(event_list["ioc"]) < target["ioc"] \/ Len(event_list["gateway"]) < target["gateway"]

\* while <unmet>: assert cond.wait(timeout=10.0) -- the loop test; the wait
\* releases the lock
CheckTarget ==
    /\ tpc \in {"check_initial", "check_put"}
    /\ IF Unmet
       THEN /\ tpc' = IF tpc = "check_initial" THEN "wait_initial" ELSE "wait_put"
            /\ waiter' = "waiting"
            /\ lock' = "free"
            /\ UNCHANGED nput
       ELSE IF tpc = "check_initial"
       THEN /\ tpc' = "drain"
            /\ UNCHANGED <<waiter, lock, nput>>
       ELSE \* the with block of one value ends; next value or the last drain
            /\ lock' = "free"
            /\ nput' = nput + 1
            /\ tpc' = IF nput + 1 < MaxValues THEN "set_target" ELSE "lock_drain"
            /\ UNCHANGED waiter
    /\ UNCHANGED <<scenario, event_list, cbpc, invoked, subscribed, target,
                   dropped, discards, timed_out, pureVars>>

\* the timeout of a wait expires before any notify
Timeout ==
    /\ waiter = "waiting"
    /\ waiter' = "timedout"
    /\ timed_out' = (timed_out \/ tpc \in {"wait_initial", "wait_put"})
    /\ UNCHANGED <<scenario, tpc, lock, event_list, cbpc, invoked, subscribed, target,
                   nput, dropped, discards, pureVars>>

\* as WakeTarget, with the result of cond.wait ignored
WakeTarget_no_assert ==
    /\ tpc \in {"wait_initial", "wait_put"}
    /\ waiter \in {"notified", "timedout"}
    /\ lock = "free"
    /\ waiter' = "none"
    /\ lock' = "test"
    /\ tpc' = IF tpc = "wait_initial" THEN "check_initial" ELSE "check_put"
    /\ UNCHANGED <<scenario, event_list, cbpc, invoked, subscribed, target, nput,
                   dropped, discards, timed_out, pureVars>>

\* cond.wait(timeout=10.0) re-acquires the lock and returns; assert on its
\* result.  A failed assertion leaves the with blocks: the lock is released
\* and both subscriptions are cleared.
WakeTarget ==
    /\ tpc \in {"wait_initial", "wait_put"}
    /\ waiter \in {"notified", "timedout"}
    /\ lock = "free"
    /\ waiter' = "none"
    /\ IF waiter = "notified"
       THEN /\ lock' = "test"
            /\ tpc' = IF tpc = "wait_initial" THEN "check_initial" ELSE "check_put"
            /\ UNCHANGED subscribed
       ELSE /\ lock' = "free"
            /\ tpc' = "failed"
            /\ subscribed' = [ep \in Endpoints |-> FALSE]
    /\ UNCHANGED <<scenario, event_list, cbpc, invoked, target, nput,
                   dropped, discards, timed_out, pureVars>>

\* while cond.wait(timeout=0.2): pass -- one wait is started
DrainWait ==
    /\ tpc = "drain"
    /\ waiter' = "waiting"
    /\ lock' = "free"
    /\ tpc' = "wait_drain"
    /\ UNCHANGED <<scenario, event_list, cbpc, invoked, subscribed, target, nput,
                   dropped, discards, timed_out, pureVars>>

\* the drain wait returns: True goes round the loop, False ends it and the
\* with block.  After the last drain the subscriptions are cleared.
WakeDrain ==
    /\ tpc = "wait_drain"
    /\ waiter \in {"notified", "timedout"}
    /\ lock = "free"
    /\ waiter' = "none"
    /\ IF waiter = "notified"
       THEN /\ lock' = "test"
            /\ tpc' = "drain"
            /\ UNCHANGED subscribed
       ELSE /\ lock' = "free"
            /\ IF scenario = "with_put" /\ discards = 0
               THEN tpc' = "discard" /\ UNCHANGED subscribed
               ELSE tpc' = "compare" /\ subscribed' = [ep \in Endpoints |-> FALSE]
    /\ UNCHANGED <<scenario, event_list, cbpc, invoked, target, nput,
                   dropped, discards, timed_out, pureVars>>

\* with cond: del gateway_events[:]; del ioc_events[:]
DiscardInitial ==
    /\ tpc = "discard"
    /\ lock = "free"
    /\ dropped' = [ep \in Endpoints |-> dropped[ep] + Len(event_list[ep])]
    /\ event_list' = [ep \in Endpoints |-> <<>>]
    /\ discards' = discards + 1
    /\ tpc' = "set_target"
    /\ UNCHANGED <<scenario, lock, waiter, cbpc, invoked, subscribed, target, nput,
                   timed_out, pureVars>>

\* with cond: target_ioc = len(ioc_events) + 1; target_gw = len(gateway_events) + 1
\* and then ca.put(ioc_ch, value)
SetTargetAndPut ==
    /\ tpc = "set_target"
    /\ lock = "free"
    /\ target' = [ep \in Endpoints |-> Len(event_list[ep]) + 1]
    /\ tpc' = "lock_put"
    /\ UNCHANGED <<scenario, lock, waiter, event_list, cbpc, invoked, subscribed, nput,
                   dropped, discards, timed_out, pureVars>>

NextSub ==
    \/ \E ep \in Endpoints : CbInvoke(ep) \/ CbAcquire(ep) \/ CbAppend(ep) \/ CbNotify(ep)
    \/ Subscribe
    \/ TestAcquire
    \/ CheckTarget
    \/ Timeout
    \/ WakeTarget
    \/ DrainWait
    \/ WakeDrain
    \/ DiscardInitial
    \/ SetTargetAndPut

SpecSub == InitSub /\ [][NextSub]_vars

(***************************************************************************)
(* test_subscription_on_connection with endpoints that never stop          *)
(* delivering.  The test reads its logs only for emptiness (line 100), so  *)
(* a log is kept up to MaxDeliver events and later events leave it as it   *)
(* is; the callbacks still take the lock and notify for every delivery.    *)
(***************************************************************************)
InitDrain == InitSub /\ scenario = "on_connection"

\* the client library invokes the callback, any number of times
CbInvokeAgain(ep) ==
    /\ subscribed[ep]
    /\ cbpc[ep] = "idle"
    /\ invoked' = [invoked EXCEPT ![ep] = IF @ < MaxDeliver THEN @ + 1 ELSE @]
    /\ cbpc' = [cbpc EXCEPT ![ep] = "called"]
    /\ UNCHANGED <<scenario, tpc, lock, waiter, event_list, subscribed, target, nput,
                   dropped, discards, timed_out, pureVars>>

\* on_change: event_list.append(...)
CbAppendKept(ep) ==
    /\ cbpc[ep] = "locked"
    /\ event_list' = [event_list EXCEPT ![ep] =
                         IF Len(@) < MaxDeliver THEN Append(@, invoked[ep]) ELSE @]
    /\ cbpc' = [cbpc EXCEPT ![ep] = "appended"]
    /\ UNCHANGED <<scenario, tpc, lock, waiter, invoked, subscribed, target, nput,
                   dropped, discards, timed_out, pureVars>>

NextDrain ==
    \/ \E ep \in Endpoints : CbInvokeAgain(ep) \/ CbAcquire(ep) \/ CbAppendKept(ep) \/ CbNotify(ep)
    \/ Subscribe
    \/ TestAcquire
    \/ CheckTarget
    \/ Timeout
    \/ WakeTarget
    \/ DrainWait
    \/ WakeDrain

\* Every thread that can run does run, and a thread that can take the lock
\* again and again gets it; the timeout of a wait expires if the wait is left
\* alone.  Nothing obliges an endpoint to deliver.
FairDrain ==
    /\ WF_vars(Subscribe) /\ WF_vars(CheckTarget) /\ WF_vars(DrainWait)
    /\ SF_vars(TestAcquire) /\ SF_vars(WakeTarget) /\ SF_vars(WakeDrain)
    /\ \A ep \in Endpoints :
          SF_vars(CbAcquire(ep)) /\ WF_vars(CbAppendKept(ep)) /\ WF_vars(CbNotify(ep))
    /\ WF_vars(Timeout)

SpecDrain == InitDrain /\ [][NextDrain]_vars /\ FairDrain

(***************************************************************************)
(* conftest.run_process: one use of the context manager.  The main thread  *)
(* runs the generator and the caller's with body; the child process writes *)
(* lines to the pipe and exits; the thread slurp runs read_stdout.  A line *)
(* is "ready" when it contains wait_for and "other" when it does not.      *)
(***************************************************************************)
otherVars == <<diffVars, ddVars, cmpVars, tsVars, subVars, extVars>>
argVars == <<interactive, quiescence_period, wait_for>>
childVars == <<proc, pipe, emitted>>
slurpVars == <<slurp, event, lines, startup_lines, stdout>>
countVars == <<td_entered, n_sleep, n_close, n_terminate, n_wait, n_join>>
timeVars == <<startup, elapsed, slept>>

Init ==
    /\ interactive \in BOOLEAN
    /\ quiescence_period \in 0..MaxQuiescence
    /\ wait_for \in {"none", "pattern"}
    /\ ppc = "popen" /\ body = "none" /\ exc = "none"
    /\ proc = "none" /\ stdin_open = FALSE /\ term_sent = FALSE
    /\ pipe = <<>> /\ emitted = 0
    /\ slurp = "none" /\ event = FALSE /\ lines = <<>> /\ startup_lines = <<>>
    /\ stdout = <<>>
    /\ td_entered = 0 /\ n_sleep = 0 /\ n_close = 0 /\ n_terminate = 0
    /\ n_wait = 0 /\ n_join = 0
    /\ startup = "pending" /\ elapsed = 0 /\ slept = 0
    /\ IdleDiff /\ IdleDd /\ IdleCmp /\ IdleTs /\ IdleSub /\ IdleExt

\* ---- the main thread
\* proc = subprocess.Popen(..., stdin=PIPE, stdout=PIPE, stderr=STDOUT)
Popen ==
    /\ ppc = "popen"
    /\ proc' = "running"
    /\ stdin_open' = TRUE
    /\ ppc' = "start_slurp"
    /\ UNCHANGED <<argVars, body, exc, term_sent, pipe, emitted, slurpVars, countVars,
                   timeVars, otherVars>>

\* slurp = threading.Thread(daemon=True, target=read_stdout); slurp.start()
StartSlurp ==
    /\ ppc = "start_slurp"
    /\ slurp' = "reading"
    /\ ppc' = "event_wait"
    /\ UNCHANGED <<argVars, body, exc, stdin_open, term_sent, childVars,
                   event, lines, startup_lines, stdout, countVars, timeVars, otherVars>>

\* event.wait(startup_time) is blocked: the event is not set and less than
\* startup_time has passed
StartupTick ==
    /\ ppc = "event_wait"
    /\ ~event
    /\ elapsed < StartupTime
    /\ elapsed' = elapsed + 1
    /\ UNCHANGED <<argVars, ppc, body, exc, stdin_open, term_sent, childVars, slurpVars,
                   countVars, startup, slept, otherVars>>

\* as EventWait, with a wait that timed out raised to the caller
EventWait_raises_on_timeout ==
    /\ ppc = "event_wait"
    /\ event \/ elapsed = StartupTime
    /\ startup' = IF event THEN "set" ELSE "timeout"
    /\ ppc' = IF event THEN "body" ELSE "closed"
    /\ body' = IF event THEN "running" ELSE body
    /\ exc' = IF event THEN exc ELSE "readiness"
    /\ UNCHANGED <<argVars, stdin_open, term_sent, childVars, slurpVars,
                   countVars, elapsed, slept, otherVars>>

\* event.wait(startup_time) returns: True as soon as the event is set, False
\* when startup_time has passed with the event unset.  Its result is not
\* looked at: the generator goes on to try: yield proc
EventWait ==
    /\ ppc = "event_wait"
    /\ event \/ elapsed = StartupTime
    /\ startup' = IF event THEN "set" ELSE "timeout"
    /\ ppc' = "body"
    /\ body' = "running"
    /\ UNCHANGED <<argVars, exc, stdin_open, term_sent, childVars, slurpVars,
                   countVars, elapsed, slept, otherVars>>

\* yield proc: the with body of the caller ends by returning; the generator
\* resumes into its finally block
BodyReturns ==
    /\ ppc = "body"
    /\ body' = "returned"
    /\ td_entered' = td_entered + 1
    /\ ppc' = "quiescence"
    /\ UNCHANGED <<argVars, exc, stdin_open, term_sent, childVars, slurpVars,
                   n_sleep, n_close, n_terminate, n_wait, n_join, timeVars, otherVars>>

\* as BodyRaises, with the yield outside any try/finally: the exception thrown
\* into the generator leaves it at once
BodyRaises_no_finally ==
    /\ ppc = "body"
    /\ body' = "raised"
    /\ exc' = "body"
    /\ ppc' = "closed"
    /\ UNCHANGED <<argVars, stdin_open, term_sent, childVars, slurpVars,
                   countVars, timeVars, otherVars>>

\* yield proc: the with body raises; contextmanager throws the exception into
\* the generator at the yield, which runs the finally block
BodyRaises ==
    /\ ppc = "body"
    /\ body' = "raised"
    /\ td_entered' = td_entered + 1
    /\ ppc' = "quiescence"
    /\ UNCHANGED <<argVars, exc, stdin_open, term_sent, childVars, slurpVars,
                   n_sleep, n_close, n_terminate, n_wait, n_join, timeVars, otherVars>>

\* time.sleep(quiescence_period) is sleeping
SleepTick ==
    /\ ppc = "quiescence"
    /\ slept < quiescence_period
    /\ slept' = slept + 1
    /\ UNCHANGED <<argVars, ppc, body, exc, stdin_open, term_sent, childVars, slurpVars,
                   countVars, startup, elapsed, otherVars>>

\* as Quiescence, going on to the signal without the sleep
Quiescence_no_sleep ==
    /\ ppc = "quiescence"
    /\ ppc' = "signal"
    /\ UNCHANGED <<argVars, body, exc, stdin_open, term_sent, childVars, slurpVars,
                   countVars, timeVars, otherVars>>

\* if quiescence_period > 0: time.sleep(quiescence_period) -- the sleep, if
\* any, returns after the whole period
Quiescence ==
    /\ ppc = "quiescence"
    /\ slept = quiescence_period
    /\ n_sleep' = IF quiescence_period > 0 THEN n_sleep + 1 ELSE n_sleep
    /\ ppc' = "signal"
    /\ UNCHANGED <<argVars, body, exc, stdin_open, term_sent, childVars, slurpVars,
                   td_entered, n_close, n_terminate, n_wait, n_join, timeVars, otherVars>>

\* as Signal, terminating whatever interactive is
Signal_always_terminate ==
    /\ ppc = "signal"
    /\ term_sent' = TRUE
    /\ n_terminate' = n_terminate + 1
    /\ ppc' = "wait"
    /\ UNCHANGED <<argVars, body, exc, stdin_open, n_close, childVars, slurpVars,
                   td_entered, n_sleep, n_wait, n_join, timeVars, otherVars>>

\* if interactive: proc.stdin.close() else: proc.terminate()
Signal ==
    /\ ppc = "signal"
    /\ IF interactive
       THEN /\ stdin_open' = FALSE
            /\ n_close' = n_close + 1
            /\ UNCHANGED <<term_sent, n_terminate>>
       ELSE /\ term_sent' = TRUE
            /\ n_terminate' = n_terminate + 1
            /\ UNCHANGED <<stdin_open, n_close>>
    /\ ppc' = "wait"
    /\ UNCHANGED <<argVars, body, exc, childVars, slurpVars,
                   td_entered, n_sleep, n_wait, n_join, timeVars, otherVars>>

\* proc.stdin.close() or proc.terminate() raises OSError: nothing catches it,
\* the rest of the finally block is skipped
SignalRaises ==
    /\ ppc = "signal"
    /\ IF interactive
       THEN n_close' = n_close + 1 /\ UNCHANGED n_terminate
       ELSE n_terminate' = n_terminate + 1 /\ UNCHANGED n_close
    /\ exc' = "teardown"
    /\ ppc' = "closed"
    /\ UNCHANGED <<argVars, body, stdin_open, term_sent, childVars, slurpVars,
                   td_entered, n_sleep, n_wait, n_join, timeVars, otherVars>>

\* proc.wait(): returns once the child has exited
Wait ==
    /\ ppc = "wait"
    /\ proc = "exited"
    /\ n_wait' = n_wait + 1
    /\ ppc' = "join"
    /\ UNCHANGED <<argVars, body, exc, stdin_open, term_sent, childVars, slurpVars,
                   td_entered, n_sleep, n_close, n_terminate, n_join, timeVars, otherVars>>

\* slurp.join(): returns once read_stdout has returned; the generator ends
\* and an exception of the body goes on to the caller
Join ==
    /\ ppc = "join"
    /\ slurp = "done"
    /\ n_join' = n_join + 1
    /\ exc' = IF body = "raised" THEN "body" ELSE "none"
    /\ ppc' = "closed"
    /\ UNCHANGED <<argVars, body, stdin_open, term_sent, childVars, slurpVars,
                   td_entered, n_sleep, n_close, n_terminate, n_wait, timeVars, otherVars>>

\* ---- the child process
ProcWrites(line) ==
    /\ proc = "running"
    /\ emitted < MaxLines
    /\ pipe' = Append(pipe, line)
    /\ emitted' = emitted + 1
    /\ UNCHANGED <<argVars, ppc, body, exc, proc, stdin_open, term_sent, slurpVars,
                   countVars, timeVars, otherVars>>

\* the child exits: on the signal, on end of input, or on its own
ProcExits ==
    /\ proc = "running"
    /\ proc' = "exited"
    /\ UNCHANGED <<argVars, ppc, body, exc, stdin_open, term_sent, pipe, emitted,
                   slurpVars, countVars, timeVars, otherVars>>

\* ---- read_stdout (the thread slurp)
\* as ReadLine, with the event following the last line read
ReadLine_event_follows_line ==
    /\ slurp = "reading"
    /\ pipe # <<>>
    /\ LET line == Head(pipe)
       IN  /\ IF event
              THEN startup_lines' = Append(startup_lines, line) /\ UNCHANGED lines
              ELSE lines' = Append(lines, line) /\ UNCHANGED startup_lines
           /\ event' = (wait_for # "none" /\ line = "ready")
    /\ pipe' = Tail(pipe)
    /\ UNCHANGED <<argVars, ppc, body, exc, proc, stdin_open, term_sent, emitted,
                   slurp, stdout, countVars, timeVars, otherVars>>

\* line = proc.stdout.readline() returned a line
ReadLine ==
    /\ slurp = "reading"
    /\ pipe # <<>>
    /\ LET line == Head(pipe)
       IN  /\ IF event
              THEN startup_lines' = Append(startup_lines, line) /\ UNCHANGED lines
              ELSE lines' = Append(lines, line) /\ UNCHANGED startup_lines
           /\ event' = (event \/ (wait_for # "none" /\ line = "ready"))
    /\ pipe' = Tail(pipe)
    /\ UNCHANGED <<argVars, ppc, body, exc, proc, stdin_open, term_sent, emitted,
                   slurp, stdout, countVars, timeVars, otherVars>>

\* readline() returned b"": the loop ends, stdout = b"".join(lines)
ReadEof ==
    /\ slurp = "reading"
    /\ pipe = <<>>
    /\ proc = "exited"
    /\ stdout' = lines
    /\ slurp' = "done"
    /\ UNCHANGED <<argVars, ppc, body, exc, stdin_open, term_sent, childVars,
                   event, lines, startup_lines, countVars, timeVars, otherVars>>

Next ==
    \/ Popen
    \/ StartSlurp
    \/ StartupTick
    \/ EventWait
    \/ BodyReturns
    \/ BodyRaises
    \/ SleepTick
    \/ Quiescence
    \/ Signal
    \/ SignalRaises
    \/ Wait
    \/ Join
    \/ \E line \in {"ready", "other"} : ProcWrites(line)
    \/ ProcExits
    \/ ReadLine
    \/ ReadEof

Spec == Init /\ [][Next]_vars

\* The main thread and the thread slurp run whenever they can, time passes
\* in a wait or a sleep, and the with body ends.  Nothing obliges the child
\* process to write or to exit, and no call is obliged to raise.
Fair ==
    /\ WF_vars(Popen) /\ WF_vars(StartSlurp) /\ WF_vars(StartupTick) /\ WF_vars(EventWait)
    /\ WF_vars(BodyReturns \/ BodyRaises)
    /\ WF_vars(SleepTick) /\ WF_vars(Quiescence) /\ WF_vars(Signal)
    /\ WF_vars(Wait) /\ WF_vars(Join)
    /\ WF_vars(ReadLine) /\ WF_vars(ReadEof)

SpecLive == Init /\ [][Next]_vars /\ Fair

(***************************************************************************)
(* test_value_no_deadband (test_alarm_level and the monitor tests of       *)
(* test_structures wait in the same way): the gateway callback counts the  *)
(* events under a threading.Condition; the test thread waits for the       *)
(* expected count, asserts it, and then asserts that one more wait of 1 s  *)
(* times out.  at_silence records the count at the start of that wait.     *)
(***************************************************************************)
nonSilVars == <<procVars, diffVars, ddVars, cmpVars, tsVars, subVars, envVars, fixVars, ext2Vars>>

InitSilence ==
    /\ events_received = 0
    /\ delivered = 0
    /\ cond_owner = "free"
    /\ cond_waiter = "none"
    /\ vpc = "lock_count"
    /\ on_change_pc = "idle"
    /\ at_silence = 0
    /\ ioc_delivered = 0
    /\ IdleDiff /\ IdleDd /\ IdleCmp /\ IdleTs /\ IdleSub /\ IdleProc
    /\ IdleEnv /\ IdleFix /\ IdleExt2

\* ---- the client library's thread: one invocation of on_change at a time
Deliver ==
    /\ on_change_pc = "idle"
    /\ delivered < ExpectedEvents + MaxExtra
    /\ delivered' = delivered + 1
    /\ on_change_pc' = "called"
    /\ UNCHANGED <<events_received, cond_owner, cond_waiter, vpc, at_silence, ioc_delivered, nonSilVars>>

\* the IOC's PV has no callback (ioc_callback is None): an update of the
\* direct subscription is delivered to nothing the test looks at
DeliverIoc ==
    /\ ioc_delivered < ExpectedEvents + MaxExtra
    /\ ioc_delivered' = ioc_delivered + 1
    /\ UNCHANGED <<events_received, delivered, cond_owner, cond_waiter, vpc, on_change_pc,
                   at_silence, nonSilVars>>

\* on_change: with cond:
OnChangeAcquire ==
    /\ on_change_pc = "called"
    /\ cond_owner = "free"
    /\ cond_owner' = "on_change"
    /\ on_change_pc' = "locked"
    /\ UNCHANGED <<events_received, delivered, cond_waiter, vpc, at_silence, ioc_delivered, nonSilVars>>

\* on_change: events_received += 1
OnChangeCount ==
    /\ on_change_pc = "locked"
    /\ events_received' = events_received + 1
    /\ on_change_pc' = "counted"
    /\ UNCHANGED <<delivered, cond_owner, cond_waiter, vpc, at_silence, ioc_delivered, nonSilVars>>

\* on_change: cond.notify() and the end of the with block.  With no thread
\* waiting the notification is lost.
OnChangeNotify ==
    /\ on_change_pc = "counted"
    /\ cond_waiter' = IF cond_waiter = "waiting" THEN "notified" ELSE cond_waiter
    /\ cond_owner' = "free"
    /\ on_change_pc' = "idle"
    /\ UNCHANGED <<events_received, delivered, vpc, at_silence, ioc_delivered, nonSilVars>>

\* ---- the test thread
\* with cond: (line 36 and line 42)
SilAcquire ==
    /\ vpc \in {"lock_count", "lock_silence"}
    /\ cond_owner = "free"
    /\ cond_owner' = "test"
    /\ vpc' = IF vpc = "lock_count" THEN "check_count" ELSE "silence"
    /\ UNCHANGED <<events_received, delivered, cond_waiter, on_change_pc, at_silence,
                   ioc_delivered, nonSilVars>>

\* while events_received < 11: assert cond.wait(timeout=10.0) -- the loop
\* test; the wait releases the lock, and so does the end of the with block
CheckCount ==
    /\ vpc = "check_count"
    /\ cond_owner' = "free"
    /\ IF events_received < ExpectedEvents
       THEN vpc' = "wait_count" /\ cond_waiter' = "waiting"
       ELSE vpc' = "assert_count" /\ UNCHANGED cond_waiter
    /\ UNCHANGED <<events_received, delivered, on_change_pc, at_silence, ioc_delivered, nonSilVars>>

\* the timeout of a wait expires before any notify
SilTimeout ==
    /\ cond_waiter = "waiting"
    /\ cond_waiter' = "timedout"
    /\ UNCHANGED <<events_received, delivered, cond_owner, vpc, on_change_pc, at_silence,
                   ioc_delivered, nonSilVars>>

\* cond.wait(timeout=10.0) re-acquires the lock and returns; assert on it
WakeCount ==
    /\ vpc = "wait_count"
    /\ cond_waiter \in {"notified", "timedout"}
    /\ cond_owner = "free"
    /\ cond_waiter' = "none"
    /\ IF cond_waiter = "notified"
       THEN cond_owner' = "test" /\ vpc' = "check_count"
       ELSE cond_owner' = "free" /\ vpc' = "failed"
    /\ UNCHANGED <<events_received, delivered, on_change_pc, at_silence, ioc_delivered, nonSilVars>>

\* assert events_received == 11 (outside the lock)
AssertCount ==
    /\ vpc = "assert_count"
    /\ vpc' = IF events_received = ExpectedEvents THEN "lock_silence" ELSE "failed"
    /\ UNCHANGED <<events_received, delivered, cond_owner, cond_waiter, on_change_pc,
                   at_silence, ioc_delivered, nonSilVars>>

\* assert not cond.wait(timeout=1.0): the wait starts and releases the lock
SilenceWait ==
    /\ vpc = "silence"
    /\ cond_waiter' = "waiting"
    /\ cond_owner' = "free"
    /\ at_silence' = events_received
    /\ vpc' = "wait_silence"
    /\ UNCHANGED <<events_received, delivered, on_change_pc, ioc_delivered, nonSilVars>>

\* the wait returns: True (notified) fails the assertion, False passes it;
\* the with block ends either way
WakeSilence ==
    /\ vpc = "wait_silence"
    /\ cond_waiter \in {"notified", "timedout"}
    /\ cond_owner = "free"
    /\ cond_waiter' = "none"
    /\ vpc' = IF cond_waiter = "notified" THEN "failed" ELSE "passed"
    /\ UNCHANGED <<events_received, delivered, cond_owner, on_change_pc, at_silence,
                   ioc_delivered, nonSilVars>>

NextSilence ==
    \/ Deliver
    \/ DeliverIoc
    \/ OnChangeAcquire
    \/ OnChangeCount
    \/ OnChangeNotify
    \/ SilAcquire
    \/ CheckCount
    \/ SilTimeout
    \/ WakeCount
    \/ AssertCount
    \/ SilenceWait
    \/ WakeSilence

SpecSilence == InitSilence /\ [][NextSilence]_vars

(***************************************************************************)
(* conftest.context_set_env.  os.environ maps a key to a string or, here,  *)
(* to Unset when the key is absent (os.environ.get(key, None) is None).    *)
(* A value handed to the manager is a Python str or int.  A scope that is  *)
(* open keeps key, orig_value and, for the properties, os.environ as it    *)
(* was on entry; exited holds the last scope that was left.                *)
(***************************************************************************)
nonEnvVars == <<procVars, diffVars, ddVars, cmpVars, tsVars, subVars, silVars, fixVars, ext2Vars>>

PyStrValue(t) == [py |-> "str", s |-> t, n |-> 0]
PyIntValue(k) == [py |-> "int", s |-> "", n |-> k]
EnvValues == {PyStrValue("NO"), PyStrValue("localhost:12782"), PyIntValue(1)}

\* str(value)
PyStr(value) ==
    IF value.py = "str" THEN value.s
    ELSE CASE value.n = 0 -> "0"
           [] value.n = 1 -> "1"
           [] OTHER -> "2"

InitEnv ==
    /\ environ \in [EnvKeys -> {Unset, "", "YES"}]
    /\ scopes = <<>>
    /\ exited = <<>>
    /\ IdleDiff /\ IdleDd /\ IdleCmp /\ IdleTs /\ IdleSub /\ IdleProc
    /\ IdleSil /\ IdleFix /\ IdleExt2

\* orig_value = os.environ.get(key, None); os.environ[key] = str(value);
\* yield orig_value
EnterScope(key, value) ==
    /\ Len(scopes) < MaxDepth
    /\ scopes' = Append(scopes, [key |-> key, orig_value |-> environ[key],
                                 installed |-> PyStr(value), before |-> environ])
    /\ environ' = [environ EXCEPT ![key] = PyStr(value)]
    /\ UNCHANGED <<exited, nonEnvVars>>

\* finally: if orig_value is not None: os.environ[key] = orig_value
\* The finally block runs when the with body returns and when it raises.
ExitScope(how) ==
    /\ scopes # <<>>
    /\ LET top == scopes[Len(scopes)]
           after == IF top.orig_value # Unset
                    THEN [environ EXCEPT ![top.key] = top.orig_value]
                    ELSE environ
       IN  /\ environ' = after
           /\ exited' = <<[key |-> top.key, how |-> how, before |-> top.before,
                           after |-> after]>>
    /\ scopes' = SubSeq(scopes, 1, Len(scopes) - 1)
    /\ UNCHANGED nonEnvVars

NextEnv ==
    \/ \E key \in EnvKeys, value \in EnvValues : EnterScope(key, value)
    \/ \E how \in {"return", "raise"} : ExitScope(how)

SpecEnv == InitEnv /\ [][NextEnv]_vars

(***************************************************************************)
(* conftest.file_test_environment and conftest.custom_environment: one     *)
(* with statement over run_gateway, run_ioc and local_channel_access, in   *)
(* this order.  A with statement of several items enters them left to      *)
(* right and leaves the ones it entered right to left; an exception raised *)
(* while entering or leaving one item goes on through the items that were  *)
(* entered before it.  steps is the history of what was done.              *)
(***************************************************************************)
nonFixVars == <<procVars, diffVars, ddVars, cmpVars, tsVars, subVars, silVars, envVars, ext2Vars>>

ContextManagers == <<"run_gateway", "run_ioc", "local_channel_access">>
ProcessOf(cm) == IF cm = "run_gateway" THEN "gateway" ELSE "ioc"
Step(op, who) == [op |-> op, who |-> who]
NextManager == ContextManagers[Len(entered) + 1]
Top == entered[Len(entered)]
Popped == SubSeq(entered, 1, Len(entered) - 1)
\* as Unwind, with the temporary files left behind
Unwind_no_cleanup(stack) == IF stack # <<>> THEN "exit" ELSE "closed"

\* where an exit or an exception goes next: the innermost item still
\* entered, then (custom_environment) the with statement of the temporary
\* files, then the caller
Unwind(stack) ==
    IF stack # <<>> THEN "exit"
    ELSE IF fixture = "custom_environment" THEN "cleanup" ELSE "closed"

InitFix ==
    /\ fixture \in {"file_test_environment", "custom_environment"}
    /\ fpc = IF fixture = "custom_environment" THEN "files" ELSE "enter"
    /\ steps = <<>>
    /\ pending = "none"
    /\ entered = <<>>
    /\ IdleDiff /\ IdleDd /\ IdleCmp /\ IdleTs /\ IdleSub /\ IdleProc
    /\ IdleSil /\ IdleEnv /\ IdleExt2

\* custom_environment: the three NamedTemporaryFile are created, written and
\* flushed
WriteTempFiles ==
    /\ fpc = "files"
    /\ steps' = Append(steps, Step("write_files", "custom_environment"))
    /\ fpc' = "enter"
    /\ UNCHANGED <<fixture, pending, entered, nonFixVars>>

\* custom_environment: encoding or writing the contents raises (the contents
\* are encoded as latin-1): the with statement of the temporary files is left
WriteTempFilesFails ==
    /\ fpc = "files"
    /\ steps' = Append(steps, Step("write_failed", "custom_environment"))
    /\ pending' = "custom_environment"
    /\ fpc' = "cleanup"
    /\ UNCHANGED <<fixture, entered, nonFixVars>>

\* custom_environment: the with statement of the temporary files is left
CloseTempFiles ==
    /\ fpc = "cleanup"
    /\ steps' = Append(steps, Step("close_files", "custom_environment"))
    /\ fpc' = "closed"
    /\ UNCHANGED <<fixture, pending, entered, nonFixVars>>

\* run_gateway / run_ioc -> run_process: subprocess.Popen(...)
SpawnProcess ==
    /\ fpc = "enter"
    /\ NextManager # "local_channel_access"
    /\ steps' = Append(steps, Step("spawn", ProcessOf(NextManager)))
    /\ fpc' = "ready"
    /\ UNCHANGED <<fixture, pending, entered, nonFixVars>>

\* subprocess.Popen raises (or an assertion before it fails): the item is
\* not entered and the items entered before it are left
SpawnFails ==
    /\ fpc = "enter"
    /\ NextManager # "local_channel_access"
    /\ steps' = Append(steps, Step("spawn_failed", ProcessOf(NextManager)))
    /\ pending' = NextManager
    /\ fpc' = Unwind(entered)
    /\ UNCHANGED <<fixture, entered, nonFixVars>>

\* run_process: event.wait(startup_time) returns and the process is yielded
AwaitReady ==
    /\ fpc = "ready"
    /\ steps' = Append(steps, Step("ready", ProcessOf(NextManager)))
    /\ entered' = Append(entered, NextManager)
    /\ fpc' = "enter"
    /\ UNCHANGED <<fixture, pending, nonFixVars>>

\* local_channel_access: the two context_set_env scopes are entered
SetAddressing ==
    /\ fpc = "enter"
    /\ NextManager = "local_channel_access"
    /\ steps' = Append(steps, Step("set_addr", "client"))
    /\ fpc' = "reset"
    /\ UNCHANGED <<fixture, pending, entered, nonFixVars>>

\* local_channel_access: reset_libca(); yield -- and the fixture yields
ResetLibca ==
    /\ fpc = "reset"
    /\ steps' = Append(steps, Step("reset", "client"))
    /\ entered' = Append(entered, NextManager)
    /\ fpc' = "body"
    /\ UNCHANGED <<fixture, pending, nonFixVars>>

\* reset_libca() raises: the context_set_env scopes restore the environment
\* and the exception leaves local_channel_access before its yield
ResetLibcaFails ==
    /\ fpc = "reset"
    /\ steps' = steps \o <<Step("reset_failed", "client"), Step("restore", "client")>>
    /\ pending' = NextManager
    /\ fpc' = Unwind(entered)
    /\ UNCHANGED <<fixture, entered, nonFixVars>>

\* the body of the fixture's with statement (the test) returns or raises
FixtureBody(raises) ==
    /\ fpc = "body"
    /\ steps' = Append(steps, Step("body", "test"))
    /\ pending' = IF raises THEN "body" ELSE "none"
    /\ fpc' = "exit"
    /\ UNCHANGED <<fixture, entered, nonFixVars>>

\* local_channel_access is left: the finally blocks of context_set_env
RestoreAddressing ==
    /\ fpc = "exit"
    /\ Top = "local_channel_access"
    /\ steps' = Append(steps, Step("restore", "client"))
    /\ entered' = Popped
    /\ fpc' = Unwind(Popped)
    /\ UNCHANGED <<fixture, pending, nonFixVars>>

\* as RestoreAddressingFails, with the exception ending the with statement
RestoreAddressingFails_abort ==
    /\ fpc = "exit"
    /\ Top = "local_channel_access"
    /\ steps' = Append(steps, Step("restore_failed", "client"))
    /\ pending' = Top
    /\ entered' = <<>>
    /\ fpc' = "closed"
    /\ UNCHANGED <<fixture, nonFixVars>>

\* restoring the environment raises: the exception goes on through run_ioc
\* and run_gateway
RestoreAddressingFails ==
    /\ fpc = "exit"
    /\ Top = "local_channel_access"
    /\ steps' = Append(steps, Step("restore_failed", "client"))
    /\ pending' = Top
    /\ entered' = Popped
    /\ fpc' = Unwind(Popped)
    /\ UNCHANGED <<fixture, nonFixVars>>

\* run_process, finally: the quiescence sleep, then proc.stdin.close() (IOC)
\* or proc.terminate() (gateway)
SignalProcess ==
    /\ fpc = "exit"
    /\ Top # "local_channel_access"
    /\ steps' = Append(steps, Step("signal", ProcessOf(Top)))
    /\ fpc' = "wait"
    /\ UNCHANGED <<fixture, pending, entered, nonFixVars>>

\* proc.stdin.close() or proc.terminate() raises: the rest of this finally
\* block is skipped and the exception goes on through the outer items
SignalProcessFails ==
    /\ fpc = "exit"
    /\ Top # "local_channel_access"
    /\ steps' = Append(steps, Step("signal_failed", ProcessOf(Top)))
    /\ pending' = Top
    /\ entered' = Popped
    /\ fpc' = Unwind(Popped)
    /\ UNCHANGED <<fixture, nonFixVars>>

\* run_process, finally: proc.wait(); slurp.join()
WaitProcess ==
    /\ fpc = "wait"
    /\ steps' = Append(steps, Step("wait", ProcessOf(Top)))
    /\ entered' = Popped
    /\ fpc' = Unwind(Popped)
    /\ UNCHANGED <<fixture, pending, nonFixVars>>

NextFix ==
    \/ WriteTempFiles
    \/ WriteTempFilesFails
    \/ CloseTempFiles
    \/ SpawnProcess
    \/ SpawnFails
    \/ AwaitReady
    \/ SetAddressing
    \/ ResetLibca
    \/ ResetLibcaFails
    \/ \E raises \in BOOLEAN : FixtureBody(raises)
    \/ RestoreAddressing
    \/ RestoreAddressingFails
    \/ SignalProcess
    \/ SignalProcessFails
    \/ WaitProcess

SpecFix == InitFix /\ [][NextFix]_vars

(***************************************************************************)
(* conftest.local_channel_access, gateway_channel_access_env and           *)
(* ioc_channel_access_env over os.environ, and the Channel Access client   *)
(* library.  libca is the addressing environment the library was last      *)
(* initialised under (reset_libca finalizes and initializes it; the        *)
(* fixture fix_pyepics_reinitialization initializes it before the test).   *)
(* A scope of ca_stack keeps what its two context_set_env saved; used is   *)
(* the last use of the client: the environment and libca at that moment.   *)
(***************************************************************************)
nonCaVars == <<procVars, diffVars, ddVars, cmpVars, tsVars, subVars, silVars, fixVars,
               scopes, exited, chanVars, alarmVars, ext3Vars>>

ChannelAccessScopes ==
    {"local_channel_access", "gateway_channel_access_env", "ioc_channel_access_env"}

\* the value given to EPICS_CA_ADDR_LIST (ports: config.default_ioc_port and
\* config.default_gateway_port)
AddressList(m) ==
    CASE m = "local_channel_access" -> "localhost:62782 localhost:62783"
      [] m = "gateway_channel_access_env" -> "localhost:62783"
      [] OTHER -> "localhost:62782"

CaTop == ca_stack[Len(ca_stack)]
InBody == IF ca_stack = <<>> THEN TRUE ELSE CaTop.phase = "body"

InitCa ==
    /\ environ \in [EnvKeys -> {Unset, "YES"}]
    /\ libca = environ
    /\ ca_stack = <<>>
    /\ used = <<>>
    /\ scopes = <<>> /\ exited = <<>>
    /\ IdleDiff /\ IdleDd /\ IdleCmp /\ IdleTs /\ IdleSub /\ IdleProc
    /\ IdleSil /\ IdleFix /\ IdleChan /\ IdleAlarm /\ IdleExt3

\* with context_set_env("EPICS_CA_AUTO_ADDR_LIST", "NO"), ...: the first item
SetAutoAddrList(m) ==
    /\ InBody
    /\ Len(ca_stack) < MaxScopes
    /\ ca_stack' = Append(ca_stack,
                          [name |-> m, phase |-> "auto", reset |-> FALSE,
                           orig_auto |-> environ["EPICS_CA_AUTO_ADDR_LIST"],
                           orig_addr |-> Unset, reset_env |-> environ])
    /\ environ' = [environ EXCEPT !["EPICS_CA_AUTO_ADDR_LIST"] = PyStr(PyStrValue("NO"))]
    /\ UNCHANGED <<libca, used, nonCaVars>>

\* ..., context_set_env("EPICS_CA_ADDR_LIST", address_list): the second item
SetAddrList ==
    /\ ca_stack # <<>>
    /\ CaTop.phase = "auto"
    /\ ca_stack' = [ca_stack EXCEPT ![Len(ca_stack)] =
                       [@ EXCEPT !.phase = "addr",
                                 !.orig_addr = environ["EPICS_CA_ADDR_LIST"]]]
    /\ environ' = [environ EXCEPT !["EPICS_CA_ADDR_LIST"] =
                      PyStr(PyStrValue(AddressList(CaTop.name)))]
    /\ UNCHANGED <<libca, used, nonCaVars>>

\* as ResetLibca_Yield, without the reset
Yield_without_reset ==
    /\ ca_stack # <<>>
    /\ CaTop.phase = "addr"
    /\ ca_stack' = [ca_stack EXCEPT ![Len(ca_stack)] = [@ EXCEPT !.phase = "body"]]
    /\ UNCHANGED <<environ, libca, used, nonCaVars>>

\* reset_libca(); yield
ResetLibca_Yield ==
    /\ ca_stack # <<>>
    /\ CaTop.phase = "addr"
    /\ libca' = environ
    /\ ca_stack' = [ca_stack EXCEPT ![Len(ca_stack)] =
                       [@ EXCEPT !.phase = "body", !.reset = TRUE, !.reset_env = environ]]
    /\ UNCHANGED <<environ, used, nonCaVars>>

\* the body of the innermost scope (or the test, outside any scope) uses the
\* client: a caget, a caput, a channel
ClientUse ==
    /\ InBody
    /\ used' = <<[env |-> environ, libca |-> libca]>>
    /\ UNCHANGED <<environ, libca, ca_stack, nonCaVars>>

\* the body returns or raises: the two context_set_env are left, the one of
\* EPICS_CA_ADDR_LIST first; each restores a value that was not None
LeaveScope ==
    /\ ca_stack # <<>>
    /\ CaTop.phase = "body"
    /\ LET addr_restored ==
               IF CaTop.orig_addr # Unset
               THEN [environ EXCEPT !["EPICS_CA_ADDR_LIST"] = CaTop.orig_addr]
               ELSE environ
       IN  environ' = IF CaTop.orig_auto # Unset
                      THEN [addr_restored EXCEPT !["EPICS_CA_AUTO_ADDR_LIST"] = CaTop.orig_auto]
                      ELSE addr_restored
    /\ ca_stack' = SubSeq(ca_stack, 1, Len(ca_stack) - 1)
    /\ UNCHANGED <<libca, used, nonCaVars>>

NextCa ==
    \/ \E m \in ChannelAccessScopes : SetAutoAddrList(m)
    \/ SetAddrList
    \/ ResetLibca_Yield
    \/ ClientUse
    \/ LeaveScope

SpecCa == InitCa /\ [][NextCa]_vars

(***************************************************************************)
(* conftest.ca_subscription, pyepics_caget and pyepics_caput: one call.    *)
(* event_id is TRUE once create_subscription returned one (None before);   *)
(* connected is what connect_channel returned.  The n_ counters count the  *)
(* calls made on the channel: connect_channel, the request                 *)
(* (create_subscription, get_with_metadata or put), clear_subscription     *)
(* and clear_channel.                                                      *)
(***************************************************************************)
nonChanVars == <<procVars, diffVars, ddVars, cmpVars, tsVars, subVars, silVars, envVars,
                 fixVars, caVars, alarmVars, ext3Vars>>

Operations == {"ca_subscription", "pyepics_caget", "pyepics_caput"}
Forms == {"time", "ctrl", "native", "other"}

InitChan ==
    /\ operation \in Operations
    /\ ch_form \in IF operation = "pyepics_caput" THEN {"time"} ELSE Forms
    /\ timeout \in 1..MaxTimeout
    /\ ch_elapsed = 0
    /\ chpc = "create"
    /\ connected = FALSE /\ event_id = FALSE
    /\ ch_outcome = "none"
    /\ n_connect = 0 /\ n_request = 0
    /\ n_clear_subscription = 0 /\ n_clear_channel = 0
    /\ IdleDiff /\ IdleDd /\ IdleCmp /\ IdleTs /\ IdleSub /\ IdleProc
    /\ IdleSil /\ IdleEnv /\ IdleFix /\ IdleCa /\ IdleAlarm /\ IdleExt3

\* chid = epics.ca.create_channel(pvname), before the try
CreateChannel ==
    /\ chpc = "create"
    /\ chpc' = "connect"
    /\ UNCHANGED <<operation, ch_form, timeout, ch_elapsed, connected, event_id, ch_outcome,
                   n_connect, n_request, n_clear_subscription, n_clear_channel, nonChanVars>>

\* create_channel raises: there is no channel and no finally yet
CreateChannelRaises ==
    /\ chpc = "create"
    /\ chpc' = "done"
    /\ ch_outcome' = "ChannelAccessException"
    /\ UNCHANGED <<operation, ch_form, timeout, ch_elapsed, connected, event_id,
                   n_connect, n_request, n_clear_subscription, n_clear_channel, nonChanVars>>

\* connect_channel(chid, timeout=timeout) is called
ConnectChannel ==
    /\ chpc = "connect"
    /\ chpc' = "connecting"
    /\ n_connect' = n_connect + 1
    /\ UNCHANGED <<operation, ch_form, timeout, ch_elapsed, connected, event_id, ch_outcome,
                   n_request, n_clear_subscription, n_clear_channel, nonChanVars>>

\* time passes inside connect_channel
ConnectTick ==
    /\ chpc = "connecting"
    /\ ch_elapsed < timeout
    /\ ch_elapsed' = ch_elapsed + 1
    /\ UNCHANGED <<operation, ch_form, timeout, chpc, connected, event_id, ch_outcome,
                   n_connect, n_request, n_clear_subscription, n_clear_channel, nonChanVars>>

\* the channel connects within the timeout: connect_channel returns True
ConnectSucceeds ==
    /\ chpc = "connecting"
    /\ ch_elapsed < timeout
    /\ connected' = TRUE
    /\ chpc' = "assert"
    /\ UNCHANGED <<operation, ch_form, timeout, ch_elapsed, event_id, ch_outcome,
                   n_connect, n_request, n_clear_subscription, n_clear_channel, nonChanVars>>

\* the timeout passes: connect_channel returns False
ConnectTimesOut ==
    /\ chpc = "connecting"
    /\ ch_elapsed = timeout
    /\ connected' = FALSE
    /\ chpc' = "assert"
    /\ UNCHANGED <<operation, ch_form, timeout, ch_elapsed, event_id, ch_outcome,
                   n_connect, n_request, n_clear_subscription, n_clear_channel, nonChanVars>>

\* as AssertConnected, with the assertion taken out
AssertConnected_skipped ==
    /\ chpc = "assert"
    /\ chpc' = "request"
    /\ UNCHANGED <<operation, ch_form, timeout, ch_elapsed, connected, event_id, ch_outcome,
                   n_connect, n_request, n_clear_subscription, n_clear_channel, nonChanVars>>

\* assert connected, f"Could not connect to channel: {pvname}"
AssertConnected ==
    /\ chpc = "assert"
    /\ IF connected
       THEN chpc' = "request" /\ UNCHANGED ch_outcome
       ELSE chpc' = "finally" /\ ch_outcome' = "AssertionError"
    /\ UNCHANGED <<operation, ch_form, timeout, ch_elapsed, connected, event_id,
                   n_connect, n_request, n_clear_subscription, n_clear_channel, nonChanVars>>

\* pyepics_caget: ch_form is none of "time", "ctrl", "native"
UnsupportedForm ==
    /\ chpc = "request"
    /\ operation = "pyepics_caget" /\ ch_form = "other"
    /\ chpc' = "finally"
    /\ ch_outcome' = "ValueError"
    /\ UNCHANGED <<operation, ch_form, timeout, ch_elapsed, connected, event_id,
                   n_connect, n_request, n_clear_subscription, n_clear_channel, nonChanVars>>

\* create_subscription and yield chid; get_with_metadata and return; put.
\* raises: the call raises (event_id is still None then).
Request(raises) ==
    /\ chpc = "request"
    /\ ~(operation = "pyepics_caget" /\ ch_form = "other")
    /\ n_request' = n_request + 1
    /\ IF raises
       THEN /\ chpc' = "finally"
            /\ ch_outcome' = "ChannelAccessException"
            /\ UNCHANGED event_id
       ELSE IF operation = "ca_subscription"
            THEN chpc' = "body" /\ event_id' = TRUE /\ UNCHANGED ch_outcome
            ELSE chpc' = "finally" /\ ch_outcome' = "returned" /\ UNCHANGED event_id
    /\ UNCHANGED <<operation, ch_form, timeout, ch_elapsed, connected,
                   n_connect, n_clear_subscription, n_clear_channel, nonChanVars>>

\* the block of "with ca_subscription(...)" returns or raises
SubscriptionBody(raises) ==
    /\ chpc = "body"
    /\ chpc' = "finally"
    /\ ch_outcome' = IF raises THEN "BodyError" ELSE "returned"
    /\ UNCHANGED <<operation, ch_form, timeout, ch_elapsed, connected, event_id,
                   n_connect, n_request, n_clear_subscription, n_clear_channel, nonChanVars>>

\* finally: if event_id is not None: clear_subscription(event_id)
\* raises: clear_subscription raises and clear_channel is not reached
ClearSubscription(raises) ==
    /\ chpc = "finally"
    /\ event_id
    /\ n_clear_subscription' = n_clear_subscription + 1
    /\ IF raises
       THEN chpc' = "done" /\ ch_outcome' = "ChannelAccessException"
       ELSE chpc' = "clear_channel" /\ UNCHANGED ch_outcome
    /\ UNCHANGED <<operation, ch_form, timeout, ch_elapsed, connected, event_id,
                   n_connect, n_request, n_clear_channel, nonChanVars>>

\* finally: epics.ca.clear_channel(chid)
\* raises: the call raises, in place of whatever the try raised
ClearChannel(raises) ==
    /\ \/ chpc = "clear_channel"
       \/ chpc = "finally" /\ ~event_id
    /\ n_clear_channel' = n_clear_channel + 1
    /\ chpc' = "done"
    /\ ch_outcome' = IF raises THEN "ChannelAccessException" ELSE ch_outcome
    /\ UNCHANGED <<operation, ch_form, timeout, ch_elapsed, connected, event_id,
                   n_connect, n_request, n_clear_subscription, nonChanVars>>

NextChan ==
    \/ CreateChannel
    \/ CreateChannelRaises
    \/ ConnectChannel
    \/ ConnectTick
    \/ ConnectSucceeds
    \/ ConnectTimesOut
    \/ AssertConnected
    \/ UnsupportedForm
    \/ \E raises \in BOOLEAN : Request(raises)
    \/ \E raises \in BOOLEAN : SubscriptionBody(raises)
    \/ \E raises \in BOOLEAN : ClearSubscription(raises)
    \/ \E raises \in BOOLEAN : ClearChannel(raises)

SpecChan == InitChan /\ [][NextChan]_vars

(***************************************************************************)
(* test_dbe_alarm.test_alarm_level.  The record passiveALRM is the one the *)
(* test describes: an ai with HIGH=5 (MINOR) and HIHI=10 (MAJOR) that is   *)
(* INVALID until first written; a DBE_ALARM subscription gets an event at  *)
(* connection and one at every change of severity.  queue holds the        *)
(* severities of the events on their way to the gateway callback, sev_log  *)
(* those of the events the callback has handled.  The gateway may deliver  *)
(* an event it has delivered before a second time.                         *)
(***************************************************************************)
nonAlarmVars == <<procVars, diffVars, ddVars, cmpVars, tsVars, subVars, silVars, envVars,
                  fixVars, caVars, chanVars, ext3Vars>>

NO_ALARM == 0
MINOR == 1
MAJOR == 2
INVALID == 3
HIGH == 5
HIHI == 10

\* the severity of the record at value val
Severity(val) ==
    IF val >= HIHI THEN MAJOR ELSE IF val >= HIGH THEN MINOR ELSE NO_ALARM

\* for val in [0, 1, ..., 10, 9, ..., 0]
AlarmValues == <<0, 1, 2, 3, 4, 5, 6, 7, 8, 9, 10, 9, 8, 7, 6, 5, 4, 3, 2, 1, 0>>

\* while events_received < 6 / assert events_received == 6
ExpectedAlarmEvents == 6
\* last_severity = 4
NoSeverityYet == 4

AlarmTestOver == apc \in {"passed", "failed"}

InitAlarm ==
    /\ apc = "put"
    /\ written = 0
    /\ severity = INVALID
    /\ posted = 1
    /\ queue = <<INVALID>>
    /\ redelivered = 0
    /\ sev_log = <<>>
    /\ alarm_events_received = 0
    /\ severity_unchanged = 0
    /\ last_severity = NoSeverityYet
    /\ alarm_notified = FALSE
    /\ IdleDiff /\ IdleDd /\ IdleCmp /\ IdleTs /\ IdleSub /\ IdleProc
    /\ IdleSil /\ IdleEnv /\ IdleFix /\ IdleCa /\ IdleChan /\ IdleExt3

\* ioc.put(val, wait=True): the record processes and posts an event if its
\* severity changed
AlarmPut ==
    /\ apc = "put"
    /\ LET val == AlarmValues[written + 1]
       IN  /\ severity' = Severity(val)
           /\ IF Severity(val) # severity
              THEN queue' = Append(queue, Severity(val)) /\ posted' = posted + 1
              ELSE UNCHANGED <<queue, posted>>
    /\ written' = written + 1
    /\ apc' = IF written + 1 = Len(AlarmValues) THEN "wait_count" ELSE "put"
    /\ UNCHANGED <<redelivered, sev_log, alarm_events_received, severity_unchanged,
                   last_severity, alarm_notified, nonAlarmVars>>

\* the gateway sends an event it has delivered before once more
AlarmRedeliver(s) ==
    /\ ~AlarmTestOver
    /\ redelivered < MaxRedeliver
    /\ \E i \in 1..Len(sev_log) : sev_log[i] = s
    /\ queue' = Append(queue, s)
    /\ redelivered' = redelivered + 1
    /\ UNCHANGED <<apc, written, severity, posted, sev_log, alarm_events_received,
                   severity_unchanged, last_severity, alarm_notified, nonAlarmVars>>

\* as on_change, without the comparison with last_severity
on_change_no_compare ==
    /\ ~AlarmTestOver
    /\ queue # <<>>
    /\ alarm_events_received' = alarm_events_received + 1
    /\ last_severity' = Head(queue)
    /\ sev_log' = Append(sev_log, Head(queue))
    /\ queue' = Tail(queue)
    /\ alarm_notified' = (apc = "silence")
    /\ UNCHANGED <<apc, written, severity, posted, redelivered, severity_unchanged,
                   nonAlarmVars>>

\* on_change, under cond; cond.notify() wakes the test only if it is waiting
on_change ==
    /\ ~AlarmTestOver
    /\ queue # <<>>
    /\ alarm_events_received' = alarm_events_received + 1
    /\ severity_unchanged' = IF last_severity = Head(queue)
                             THEN severity_unchanged + 1 ELSE severity_unchanged
    /\ last_severity' = Head(queue)
    /\ sev_log' = Append(sev_log, Head(queue))
    /\ queue' = Tail(queue)
    /\ alarm_notified' = (apc = "silence")
    /\ UNCHANGED <<apc, written, severity, posted, redelivered, nonAlarmVars>>

\* with cond: while events_received < 6: assert cond.wait(timeout=10.0)
\* the loop ends
AlarmCountReached ==
    /\ apc = "wait_count"
    /\ ~(alarm_events_received < ExpectedAlarmEvents)
    /\ apc' = "assert_count"
    /\ UNCHANGED <<written, severity, posted, queue, redelivered, sev_log,
                   alarm_events_received, severity_unchanged, last_severity,
                   alarm_notified, nonAlarmVars>>

\* cond.wait(timeout=10.0) returns False: no event came in time
AlarmWaitTimeout ==
    /\ apc = "wait_count"
    /\ alarm_events_received < ExpectedAlarmEvents
    /\ apc' = "failed"
    /\ UNCHANGED <<written, severity, posted, queue, redelivered, sev_log,
                   alarm_events_received, severity_unchanged, last_severity,
                   alarm_notified, nonAlarmVars>>

\* assert events_received == 6
AlarmAssertCount ==
    /\ apc = "assert_count"
    /\ apc' = IF alarm_events_received = ExpectedAlarmEvents THEN "lock_silence" ELSE "failed"
    /\ UNCHANGED <<written, severity, posted, queue, redelivered, sev_log,
                   alarm_events_received, severity_unchanged, last_severity,
                   alarm_notified, nonAlarmVars>>

\* with cond: ... cond.wait(timeout=1.0) begins
AlarmSilenceWait ==
    /\ apc = "lock_silence"
    /\ apc' = "silence"
    /\ alarm_notified' = FALSE
    /\ UNCHANGED <<written, severity, posted, queue, redelivered, sev_log,
                   alarm_events_received, severity_unchanged, last_severity, nonAlarmVars>>

\* assert not cond.wait(timeout=1.0): woken by an event, or timed out
AlarmSilenceEnds ==
    /\ apc = "silence"
    /\ apc' = IF alarm_notified THEN "failed" ELSE "assert_unchanged"
    /\ UNCHANGED <<written, severity, posted, queue, redelivered, sev_log,
                   alarm_events_received, severity_unchanged, last_severity,
                   alarm_notified, nonAlarmVars>>

\* assert severity_unchanged == 0
AlarmAssertUnchanged ==
    /\ apc = "assert_unchanged"
    /\ apc' = IF severity_unchanged = 0 THEN "passed" ELSE "failed"
    /\ UNCHANGED <<written, severity, posted, queue, redelivered, sev_log,
                   alarm_events_received, severity_unchanged, last_severity,
                   alarm_notified, nonAlarmVars>>

NextAlarm ==
    \/ AlarmPut
    \/ \E s \in {NO_ALARM, MINOR, MAJOR, INVALID} : AlarmRedeliver(s)
    \/ on_change
    \/ AlarmCountReached
    \/ AlarmWaitTimeout
    \/ AlarmAssertCount
    \/ AlarmSilenceWait
    \/ AlarmSilenceEnds
    \/ AlarmAssertUnchanged

SpecAlarm == InitAlarm /\ [][NextAlarm]_vars

(***************************************************************************)
(* conftest.reset_libca (disconnect_libca, then connect_libca) and the      *)
(* autouse fixture fix_pyepics_reinitialization around each test.           *)
(* ca_library is epics.ca.libca: "None" before any initialization,          *)
(* "initialized", or "finalized" (epics.ca._LIBCA_FINALIZED).  calls are    *)
(* the calls the current reset_libca has made, prior is ca_library when it  *)
(* was called.                                                              *)
(***************************************************************************)
is_pyepics_libca_initialized == ca_library \notin {"None", "finalized"}

InitReset ==
    /\ ca_library \in {"None", "initialized", "finalized"}
    /\ rpc = "idle"
    /\ prior = ca_library
    /\ calls = <<>>
    /\ resets = 0
    /\ tests = 0
    /\ IdleBase /\ IdleCaget /\ IdleStruct /\ IdleExt4

\* fix_pyepics_reinitialization before the test: gc.collect();
\* epics.ca.initialize_libca()
FixtureSetup ==
    /\ rpc \in {"idle", "done"}
    /\ tests < MaxTests
    /\ ca_library' = "initialized"
    /\ tests' = tests + 1
    /\ rpc' = "idle"
    /\ UNCHANGED <<prior, calls, resets, nonResetVars>>

\* fix_pyepics_reinitialization after the test:
\* if is_pyepics_libca_initialized(): epics.ca.finalize_libca()
FixtureTeardown ==
    /\ rpc \in {"idle", "done"}
    /\ tests > 0
    /\ ca_library' = IF is_pyepics_libca_initialized THEN "finalized" ELSE ca_library
    /\ rpc' = "idle"
    /\ UNCHANGED <<prior, calls, resets, tests, nonResetVars>>

\* reset_libca() is called
reset_libca ==
    /\ rpc \in {"idle", "done"}
    /\ resets < MaxResets
    /\ resets' = resets + 1
    /\ prior' = ca_library
    /\ calls' = <<>>
    /\ rpc' = "disconnect_libca"
    /\ UNCHANGED <<ca_library, tests, nonResetVars>>

\* as disconnect_libca, finalizing whatever the state of the library
disconnect_libca_unconditional ==
    /\ rpc = "disconnect_libca"
    /\ ca_library' = "finalized"
    /\ calls' = calls \o <<"finalize_libca">>
    /\ rpc' = "clear_cache"
    /\ UNCHANGED <<prior, resets, tests, nonResetVars>>

\* disconnect_libca: if is_pyepics_libca_initialized(): epics.ca.finalize_libca()
disconnect_libca ==
    /\ rpc = "disconnect_libca"
    /\ IF is_pyepics_libca_initialized
       THEN /\ ca_library' = "finalized"
            /\ calls' = calls \o <<"finalize_libca">>
            /\ rpc' = "clear_cache"
       ELSE /\ rpc' = "connect_libca"
            /\ UNCHANGED <<ca_library, calls>>
    /\ UNCHANGED <<prior, resets, tests, nonResetVars>>

\* disconnect_libca: epics.ca.clear_cache()
clear_cache ==
    /\ rpc = "clear_cache"
    /\ calls' = calls \o <<"clear_cache">>
    /\ rpc' = "connect_libca"
    /\ UNCHANGED <<ca_library, prior, resets, tests, nonResetVars>>

\* connect_libca: if not is_pyepics_libca_initialized(): gc.collect()
connect_libca ==
    /\ rpc = "connect_libca"
    /\ IF ~is_pyepics_libca_initialized
       THEN /\ calls' = calls \o <<"gc.collect">>
            /\ rpc' = "initialize_libca"
       ELSE /\ rpc' = "done"
            /\ UNCHANGED calls
    /\ UNCHANGED <<ca_library, prior, resets, tests, nonResetVars>>

\* connect_libca: epics.ca.initialize_libca()
initialize_libca ==
    /\ rpc = "initialize_libca"
    /\ calls' = calls \o <<"initialize_libca">>
    /\ ca_library' = "initialized"
    /\ rpc' = "done"
    /\ UNCHANGED <<prior, resets, tests, nonResetVars>>

NextReset ==
    \/ FixtureSetup
    \/ FixtureTeardown
    \/ reset_libca
    \/ disconnect_libca
    \/ clear_cache
    \/ connect_libca
    \/ initialize_libca

SpecReset == InitReset /\ [][NextReset]_vars

(***************************************************************************)
(* util.caget_from_host, called on its own (with or without a socket of    *)
(* the caller) or by util.caget_many_from_host for each PV name, with       *)
(* util.bound_udp_socket and util._channel_cleanup.  own_sock is the socket *)
(* a bound_udp_socket created itself, given_sock the one a caller of        *)
(* caget_from_host passed in.  cg_exc is the exception in flight inside     *)
(* caget_from_host, cfh_raised the one that left its last call.  The calls  *)
(* into caproto (make_channel, _read, send) return or raise.                *)
(***************************************************************************)
\* the socket passed to the bound_udp_socket of caget_from_host is not None
Reusable == cg_mode = "caget_many_from_host" \/ cg_given

InitCaget ==
    /\ cg_mode \in {"caget_from_host", "caget_many_from_host"}
    /\ cg_given \in IF cg_mode = "caget_from_host" THEN BOOLEAN ELSE {FALSE}
    /\ cg_n \in IF cg_mode = "caget_from_host" THEN {1} ELSE 0..MaxPvs
    /\ cg_i = 0
    /\ cgpc = "start"
    /\ cg_exc = "none" /\ cfh_raised = "none"
    /\ own_sock = "none"
    /\ given_sock = IF cg_given THEN "open" ELSE "none"
    /\ chan = FALSE /\ circuit_sock = "none" /\ circuit_entries = FALSE
    /\ n_cleanup = 0
    /\ cleanup_raised = FALSE
    /\ pv_error = "none" /\ pv_value = FALSE
    /\ cg_outcome = "none"
    /\ IdleBase /\ IdleReset /\ IdleStruct /\ IdleExt4

\* caget_many_from_host: with bound_udp_socket() as udp_sock: the socket is
\* created, bound and given its timeout
ManyEnter ==
    /\ cgpc = "start"
    /\ cg_mode = "caget_many_from_host"
    /\ own_sock' = "open"
    /\ cgpc' = "many_loop"
    /\ UNCHANGED <<cg_mode, cg_given, cg_n, cg_i, cg_exc, cfh_raised, given_sock, chan,
                   circuit_sock, circuit_entries, n_cleanup, pv_error, pv_value,
                   cg_outcome, cleanup_raised, nonCagetVars>>

\* for pvname in pvnames: the loop ends and the with block is left normally:
\* udp_sock.close() after the yield
ManyExit ==
    /\ cgpc = "many_loop"
    /\ cg_i = cg_n
    /\ own_sock' = "closed"
    /\ cg_outcome' = "returned"
    /\ cgpc' = "done"
    /\ UNCHANGED <<cg_mode, cg_given, cg_n, cg_i, cg_exc, cfh_raised, given_sock, chan,
                   circuit_sock, circuit_entries, n_cleanup, pv_error, pv_value,
                   cleanup_raised, nonCagetVars>>

\* caget_from_host is called (by the test, or by the loop of
\* caget_many_from_host): chan = None, pv_info = PVInfo(name=pvname), and
\* bound_udp_socket is entered
CfhEnter ==
    /\ \/ cgpc = "start" /\ cg_mode = "caget_from_host"
       \/ cgpc = "many_loop" /\ cg_i < cg_n
    /\ chan' = FALSE
    /\ circuit_sock' = "none"
    /\ circuit_entries' = FALSE
    /\ n_cleanup' = 0
    /\ cleanup_raised' = FALSE
    /\ pv_error' = "none"
    /\ pv_value' = FALSE
    /\ cg_exc' = "none"
    /\ cfh_raised' = "none"
    /\ own_sock' = IF Reusable THEN own_sock ELSE "open"
    /\ cgpc' = "make_channel"
    /\ UNCHANGED <<cg_mode, cg_given, cg_n, cg_i, given_sock, cg_outcome, nonCagetVars>>

\* chan = ca_client.make_channel(pvname, udp_sock, priority, timeout)
\* how: it returns the channel, or raises
MakeChannel(how) ==
    /\ cgpc = "make_channel"
    /\ IF how = "ok"
       THEN /\ chan' = TRUE
            /\ circuit_sock' = "open"
            /\ circuit_entries' = TRUE
            /\ cgpc' = "read_control"
            /\ UNCHANGED cg_exc
       ELSE /\ cg_exc' = how
            /\ cgpc' = "with_exit"
            /\ UNCHANGED <<chan, circuit_sock, circuit_entries>>
    /\ UNCHANGED <<cg_mode, cg_given, cg_n, cg_i, cfh_raised, own_sock, given_sock,
                   n_cleanup, pv_error, pv_value, cg_outcome, cleanup_raised, nonCagetVars>>

\* control_value = ca_client._read(...), then time_value = ca_client._read(...)
\* and pv_info.value = time_value.data
Read(how) ==
    /\ cgpc \in {"read_control", "read_time"}
    /\ IF how = "ok"
       THEN /\ cgpc' = IF cgpc = "read_control" THEN "read_time" ELSE "with_exit"
            /\ pv_value' = (cgpc = "read_time")
            /\ UNCHANGED cg_exc
       ELSE /\ cg_exc' = how
            /\ cgpc' = "with_exit"
            /\ UNCHANGED pv_value
    /\ UNCHANGED <<cg_mode, cg_given, cg_n, cg_i, cfh_raised, own_sock, given_sock, chan,
                   circuit_sock, circuit_entries, n_cleanup, pv_error, cg_outcome,
                   cleanup_raised, nonCagetVars>>

\* the with statement of caget_from_host is left: override_hostname_and_username
\* restores the two functions, then bound_udp_socket is resumed at its yield,
\* normally (it goes on to return or to udp_sock.close()) or with the
\* exception of the body thrown in (nothing after the yield runs)
WithExit ==
    /\ cgpc = "with_exit"
    /\ own_sock' = IF cg_exc = "none" /\ ~Reusable THEN "closed" ELSE own_sock
    /\ cgpc' = "except"
    /\ UNCHANGED <<cg_mode, cg_given, cg_n, cg_i, cg_exc, cfh_raised, given_sock, chan,
                   circuit_sock, circuit_entries, n_cleanup, pv_error, pv_value,
                   cg_outcome, cleanup_raised, nonCagetVars>>

\* as ExceptTimeout, without the except clause
ExceptTimeout_not_caught ==
    /\ cgpc = "except"
    /\ cgpc' = IF chan THEN "cleanup_send" ELSE "cfh_return"
    /\ UNCHANGED <<cg_mode, cg_given, cg_n, cg_i, cg_exc, cfh_raised, own_sock, given_sock,
                   chan, circuit_sock, circuit_entries, n_cleanup, cleanup_raised, pv_error,
                   pv_value, cg_outcome, nonCagetVars>>

\* except TimeoutError: pv_info.error = "timeout"
ExceptTimeout ==
    /\ cgpc = "except"
    /\ IF cg_exc = "TimeoutError"
       THEN pv_error' = "timeout" /\ cg_exc' = "none"
       ELSE UNCHANGED <<pv_error, cg_exc>>
    /\ cgpc' = IF chan THEN "cleanup_send" ELSE "cfh_return"
    /\ UNCHANGED <<cg_mode, cg_given, cg_n, cg_i, cfh_raised, own_sock, given_sock, chan,
                   circuit_sock, circuit_entries, n_cleanup, pv_value, cg_outcome,
                   cleanup_raised, nonCagetVars>>

\* finally: if chan is not None: _channel_cleanup(chan), its try block:
\* ca_client.send(chan.circuit, chan.clear(), chan.name) returns or raises
CleanupSend(how) ==
    /\ cgpc = "cleanup_send"
    /\ cg_exc' = IF how = "ok" THEN cg_exc ELSE how
    /\ cleanup_raised' = (how # "ok")
    /\ cgpc' = "cleanup_close"
    /\ UNCHANGED <<cg_mode, cg_given, cg_n, cg_i, cfh_raised, own_sock, given_sock, chan,
                   circuit_sock, circuit_entries, n_cleanup, pv_error, pv_value,
                   cg_outcome, nonCagetVars>>

\* _channel_cleanup, its finally block: the socket of the circuit is closed
\* and the two entries are deleted
CleanupClose ==
    /\ cgpc = "cleanup_close"
    /\ circuit_sock' = "closed"
    /\ circuit_entries' = FALSE
    /\ n_cleanup' = n_cleanup + 1
    /\ cgpc' = "cfh_return"
    /\ UNCHANGED <<cg_mode, cg_given, cg_n, cg_i, cg_exc, cfh_raised, own_sock, given_sock,
                   chan, pv_error, pv_value, cg_outcome, cleanup_raised, nonCagetVars>>

\* return pv_info, or the exception in flight leaves caget_from_host.  In
\* caget_many_from_host a TimeoutError is caught (lines 193-197) and the loop
\* goes on; any other exception leaves the with block through the yield of
\* bound_udp_socket.
CfhReturn ==
    /\ cgpc = "cfh_return"
    /\ cfh_raised' = cg_exc
    /\ IF cg_mode = "caget_from_host"
       THEN /\ cg_outcome' = IF cg_exc = "none" THEN "returned" ELSE cg_exc
            /\ cgpc' = "done"
            /\ cg_i' = cg_i + 1
       ELSE IF cg_exc \in {"none", "TimeoutError"}
            THEN /\ cg_i' = cg_i + 1
                 /\ cgpc' = "many_loop"
                 /\ UNCHANGED cg_outcome
            ELSE /\ cg_outcome' = cg_exc
                 /\ cgpc' = "done"
                 /\ UNCHANGED cg_i
    /\ UNCHANGED <<cg_mode, cg_given, cg_n, cg_exc, own_sock, given_sock, chan,
                   circuit_sock, circuit_entries, n_cleanup, pv_error, pv_value,
                   cleanup_raised, nonCagetVars>>

NextCaget ==
    \/ ManyEnter
    \/ ManyExit
    \/ CfhEnter
    \/ \E how \in {"ok", "TimeoutError"} : MakeChannel(how)
    \/ \E how \in {"ok", "TimeoutError", "CaprotoError"} : Read(how)
    \/ WithExit
    \/ ExceptTimeout
    \/ \E how \in {"ok", "TimeoutError", "OSError"} : CleanupSend(how)
    \/ CleanupClose
    \/ CfhReturn

SpecCaget == InitCaget /\ [][NextCaget]_vars

(***************************************************************************)
(* test_structures.test_ctrl_struct_value_monitor (and, in the same way,   *)
(* test_cs_studio.test_cs_studio_value_and_prop_monitor): the wait for the  *)
(* target counts, the assertion that the counters are equal and the        *)
(* comparison of the two latest structures.  An event is the number of its  *)
(* delivery at its endpoint, and so is the structure it leaves (0: the      *)
(* empty dict).  st_view lists what the test thread read at each of the     *)
(* three places.                                                            *)
(***************************************************************************)
\* while events_received_ioc < 2 or events_received_gw < 2
StructTarget == 2

StructView == [counts |-> st_count, structs |-> st_struct]

InitStruct ==
    /\ st_tpc = "with_cond"
    /\ st_lock = "free"
    /\ st_notified = FALSE
    /\ st_cb = [ep \in Endpoints |-> "idle"]
    /\ st_delivered = [ep \in Endpoints |-> 0]
    /\ st_count = [ep \in Endpoints |-> 0]
    /\ st_struct = [ep \in Endpoints |-> 0]
    /\ st_view = <<>>
    /\ IdleBase /\ IdleReset /\ IdleCaget /\ IdleExt4

StructOver == st_tpc \in {"passed", "failed"}

\* ---- the client library's threads
\* the library calls on_change_ioc / on_change_gw with the next event
StructDeliver(ep) ==
    /\ ~StructOver
    /\ st_cb[ep] = "idle"
    /\ st_delivered[ep] < StructTarget + MaxExtra
    /\ st_delivered' = [st_delivered EXCEPT ![ep] = @ + 1]
    /\ st_cb' = [st_cb EXCEPT ![ep] = "called"]
    /\ UNCHANGED <<st_tpc, st_lock, st_notified, st_count, st_struct, st_view,
                   nonStructVars>>

\* with cond: (in the callback)
StructCbAcquire(ep) ==
    /\ st_cb[ep] = "called"
    /\ st_lock = "free"
    /\ st_lock' = ep
    /\ st_cb' = [st_cb EXCEPT ![ep] = "locked"]
    /\ UNCHANGED <<st_tpc, st_notified, st_delivered, st_count, st_struct, st_view,
                   nonStructVars>>

\* events_received_x += 1; x_struct = kws; cond.notify(); the lock is released
StructCbUpdate(ep) ==
    /\ st_cb[ep] = "locked"
    /\ st_count' = [st_count EXCEPT ![ep] = @ + 1]
    /\ st_struct' = [st_struct EXCEPT ![ep] = st_delivered[ep]]
    /\ st_notified' = (st_notified \/ st_tpc = "waiting")
    /\ st_lock' = "free"
    /\ st_cb' = [st_cb EXCEPT ![ep] = "idle"]
    /\ UNCHANGED <<st_tpc, st_delivered, st_view, nonStructVars>>

\* ---- the test thread
\* with cond:
StructAcquire ==
    /\ st_tpc = "with_cond"
    /\ st_lock = "free"
    /\ st_lock' = "test"
    /\ st_tpc' = "while"
    /\ UNCHANGED <<st_notified, st_cb, st_delivered, st_count, st_struct, st_view,
                   nonStructVars>>

\* while events_received_ioc < 2 or events_received_gw < 2: the counts are
\* short and cond.wait(timeout=10.0) releases the lock, or they are reached
\* and the with block is left
StructWhile ==
    /\ st_tpc = "while"
    /\ st_lock' = "free"
    /\ IF st_count["ioc"] < StructTarget \/ st_count["gateway"] < StructTarget
       THEN /\ st_tpc' = "waiting"
            /\ st_notified' = FALSE
            /\ UNCHANGED st_view
       ELSE /\ st_tpc' = "assert_equal"
            /\ st_view' = Append(st_view, StructView)
            /\ UNCHANGED st_notified
    /\ UNCHANGED <<st_cb, st_delivered, st_count, st_struct, nonStructVars>>

\* cond.wait returns True: notified, the lock is taken again
StructWake ==
    /\ st_tpc = "waiting"
    /\ st_notified
    /\ st_lock = "free"
    /\ st_lock' = "test"
    /\ st_tpc' = "while"
    /\ UNCHANGED <<st_notified, st_cb, st_delivered, st_count, st_struct, st_view,
                   nonStructVars>>

\* cond.wait returns False after 10 s: the assert fails
StructTimeout ==
    /\ st_tpc = "waiting"
    /\ ~st_notified
    /\ st_lock = "free"
    /\ st_tpc' = "failed"
    /\ UNCHANGED <<st_lock, st_notified, st_cb, st_delivered, st_count, st_struct, st_view,
                   nonStructVars>>

\* assert events_received_ioc == events_received_gw
StructAssertEqual ==
    /\ st_tpc = "assert_equal"
    /\ st_view' = Append(st_view, StructView)
    /\ st_tpc' = IF st_count["ioc"] = st_count["gateway"] THEN "compare" ELSE "failed"
    /\ UNCHANGED <<st_lock, st_notified, st_cb, st_delivered, st_count, st_struct,
                   nonStructVars>>

\* differences = conftest.compare_structures(gw_struct, ioc_struct);
\* assert not differences
StructCompare ==
    /\ st_tpc = "compare"
    /\ st_view' = Append(st_view, StructView)
    /\ st_tpc' = IF st_struct["gateway"] = st_struct["ioc"] THEN "passed" ELSE "failed"
    /\ UNCHANGED <<st_lock, st_notified, st_cb, st_delivered, st_count, st_struct,
                   nonStructVars>>

NextStruct ==
    \/ \E ep \in Endpoints : StructDeliver(ep)
    \/ \E ep \in Endpoints : StructCbAcquire(ep)
    \/ \E ep \in Endpoints : StructCbUpdate(ep)
    \/ StructAcquire
    \/ StructWhile
    \/ StructWake
    \/ StructTimeout
    \/ StructAssertEqual
    \/ StructCompare

SpecStruct == InitStruct /\ [][NextStruct]_vars

(***************************************************************************)
(* conftest.py: ca_subscription_pair, two nested ca_subscription context    *)
(* managers, the IOC's outside and the gateway's inside.  Every call on the *)
(* client library is free to raise; connect_channel may also return False.  *)
(***************************************************************************)
PairCall(name) == Append(pair_calls, <<name, pair_ep>>)

InitPair ==
    /\ pair_ep = "ioc" /\ pair_pc = "create"
    /\ pair_chid = [ep \in Endpoints |-> "none"]
    /\ pair_event_id = [ep \in Endpoints |-> "None"]
    /\ pair_calls = <<>> /\ pair_exc = "none" /\ pair_clear_raised = FALSE
    /\ pair_delivered = [ep \in Endpoints |-> 0]
    /\ IdleBase /\ IdleReset /\ IdleCaget /\ IdleStruct /\ IdleListen

\* chid = epics.ca.create_channel(pvname), before the try statement
PairCreateChannel(how) ==
    /\ pair_pc = "create"
    /\ pair_calls' = PairCall("create_channel")
    /\ IF how = "ok"
       THEN /\ pair_chid' = [pair_chid EXCEPT ![pair_ep] = "created"]
            /\ pair_pc' = "connect"
            /\ UNCHANGED <<pair_ep, pair_exc>>
       ELSE /\ pair_exc' = "ChannelAccessException"
            /\ pair_ep' = "ioc"
            /\ pair_pc' = IF pair_ep = "gateway" THEN "finally" ELSE "done"
            /\ UNCHANGED pair_chid
    /\ UNCHANGED <<pair_event_id, pair_clear_raised, pair_delivered, nonPairVars>>

\* connected = epics.ca.connect_channel(chid, timeout=timeout); assert connected
PairConnectChannel(how) ==
    /\ pair_pc = "connect"
    /\ pair_calls' = PairCall("connect_channel")
    /\ pair_pc' = IF how = "connected" THEN "subscribe" ELSE "finally"
    /\ pair_exc' = CASE how = "connected" -> pair_exc
                     [] how = "timeout" -> "AssertionError"
                     [] OTHER -> "ChannelAccessException"
    /\ UNCHANGED <<pair_ep, pair_chid, pair_event_id, pair_clear_raised, pair_delivered, nonPairVars>>

\* (_, _, event_id) = epics.ca.create_subscription(...); yield chid, which
\* for the IOC's context manager enters the gateway's
PairCreateSubscription(how) ==
    /\ pair_pc = "subscribe"
    /\ pair_calls' = PairCall("create_subscription")
    /\ IF how = "ok"
       THEN /\ pair_event_id' = [pair_event_id EXCEPT ![pair_ep] = "created"]
            /\ pair_ep' = "gateway"
            /\ pair_pc' = IF pair_ep = "ioc" THEN "create" ELSE "body"
            /\ UNCHANGED pair_exc
       ELSE /\ pair_exc' = "ChannelAccessException"
            /\ pair_pc' = "finally"
            /\ UNCHANGED <<pair_ep, pair_event_id>>
    /\ UNCHANGED <<pair_chid, pair_clear_raised, pair_delivered, nonPairVars>>

\* yield ioc_channel, gateway_channel: the body of the caller's with statement
PairBody(how) ==
    /\ pair_pc = "body"
    /\ pair_pc' = "finally"
    /\ pair_exc' = IF how = "raises" THEN "Exception" ELSE pair_exc
    /\ UNCHANGED <<pair_ep, pair_chid, pair_event_id, pair_calls, pair_clear_raised,
                   pair_delivered, nonPairVars>>

\* as PairFinally, without the clear_subscription
PairFinally_channel_only ==
    /\ pair_pc = "finally"
    /\ pair_pc' = "clear_channel"
    /\ UNCHANGED <<pair_ep, pair_chid, pair_event_id, pair_calls, pair_exc,
                   pair_clear_raised, pair_delivered, nonPairVars>>

\* finally: if event_id is not None: ...
PairFinally ==
    /\ pair_pc = "finally"
    /\ pair_pc' = IF pair_event_id[pair_ep] # "None" THEN "clear_subscription"
                  ELSE "clear_channel"
    /\ UNCHANGED <<pair_ep, pair_chid, pair_event_id, pair_calls, pair_exc,
                   pair_clear_raised, pair_delivered, nonPairVars>>

\* the end of one ca_subscription: the gateway's exit, with or without an
\* exception, resumes the IOC's at its yield, which runs its finally clause
PairLeave ==
    /\ pair_ep' = "ioc"
    /\ pair_pc' = IF pair_ep = "gateway" THEN "finally" ELSE "done"

\* epics.ca.clear_subscription(event_id)
PairClearSubscription(how) ==
    /\ pair_pc = "clear_subscription"
    /\ pair_calls' = PairCall("clear_subscription")
    /\ IF how = "ok"
       THEN /\ pair_event_id' = [pair_event_id EXCEPT ![pair_ep] = "cleared"]
            /\ pair_pc' = "clear_channel"
            /\ UNCHANGED <<pair_ep, pair_exc, pair_clear_raised>>
       ELSE /\ pair_exc' = "ChannelAccessException"
            /\ pair_clear_raised' = TRUE
            /\ PairLeave
            /\ UNCHANGED pair_event_id
    /\ UNCHANGED <<pair_chid, pair_delivered, nonPairVars>>

\* epics.ca.clear_channel(chid)
PairClearChannel(how) ==
    /\ pair_pc = "clear_channel"
    /\ pair_calls' = PairCall("clear_channel")
    /\ IF how = "ok"
       THEN /\ pair_chid' = [pair_chid EXCEPT ![pair_ep] = "cleared"]
            /\ UNCHANGED <<pair_exc, pair_clear_raised>>
       ELSE /\ pair_exc' = "ChannelAccessException"
            /\ pair_clear_raised' = TRUE
            /\ UNCHANGED pair_chid
    /\ PairLeave
    /\ UNCHANGED <<pair_event_id, pair_delivered, nonPairVars>>

\* the client library invokes the callback of a subscription that exists
PairCallback(ep) ==
    /\ pair_event_id[ep] = "created"
    /\ pair_delivered[ep] < MaxPairEvents
    /\ pair_delivered' = [pair_delivered EXCEPT ![ep] = @ + 1]
    /\ UNCHANGED <<pair_ep, pair_pc, pair_chid, pair_event_id, pair_calls, pair_exc,
                   pair_clear_raised, nonPairVars>>

NextPair ==
    \/ \E how \in {"ok", "raises"} : PairCreateChannel(how)
    \/ \E how \in {"connected", "timeout", "raises"} : PairConnectChannel(how)
    \/ \E how \in {"ok", "raises"} : PairCreateSubscription(how)
    \/ \E how \in {"returns", "raises"} : PairBody(how)
    \/ PairFinally
    \/ \E how \in {"ok", "raises"} : PairClearSubscription(how)
    \/ \E how \in {"ok", "raises"} : PairClearChannel(how)
    \/ \E ep \in Endpoints : PairCallback(ep)

SpecPair == InitPair /\ [][NextPair]_vars

(***************************************************************************)
(* test_logging.py: listen_on_sock.  The caller holds the yielded list      *)
(* while a daemon thread accepts one client and reads from it; the peer is  *)
(* the gateway's caPutLog client.  A chunk is a sequence of bytes; one recv *)
(* returns the bytes of one or more chunks that have arrived, or nothing    *)
(* once the peer has closed.                                                *)
(***************************************************************************)
Chunks == {<<65>>, <<233, 65>>}

\* bytes.decode("latin-1"): one character per byte, with the byte's code point
decode(bytes) == [i \in 1..Len(bytes) |-> [chr |-> bytes[i]]]

RECURSIVE Joined(_, _)
Joined(stream, k) == IF k = 0 THEN <<>> ELSE Joined(stream, k - 1) \o stream[k]

InitListen ==
    /\ ls_sock = "bound" /\ ls_peer = "idle" /\ ls_stream = <<>> /\ ls_sent = <<>>
    /\ ls_pc = "listen" /\ ls_client = "none" /\ read = <<>> /\ ls_received = <<>>
    /\ data = <<>>
    /\ ls_main = "body"
    /\ IdleBase /\ IdleReset /\ IdleCaget /\ IdleStruct /\ IdlePair

\* sock.listen(1), on a socket the caller may have closed already
ListenStart ==
    /\ ls_pc = "listen"
    /\ IF ls_sock = "closed"
       THEN ls_pc' = "raised" /\ UNCHANGED ls_sock
       ELSE ls_pc' = "accept" /\ ls_sock' = "listening"
    /\ UNCHANGED <<ls_peer, ls_stream, ls_sent, ls_client, read, ls_received, data, ls_main,
                   nonListenVars>>

\* the peer connects to the listening socket
PeerConnect ==
    /\ ls_peer = "idle" /\ ls_sock = "listening"
    /\ ls_peer' = "connected"
    /\ UNCHANGED <<ls_sock, ls_stream, ls_sent, ls_pc, ls_client, read, ls_received, data,
                   ls_main, nonListenVars>>

\* the peer sends one non-empty chunk
PeerSend(chunk) ==
    /\ ls_peer = "connected" /\ Len(ls_sent) < MaxChunks
    /\ ls_stream' = Append(ls_stream, chunk)
    /\ ls_sent' = Append(ls_sent, chunk)
    /\ UNCHANGED <<ls_sock, ls_peer, ls_pc, ls_client, read, ls_received, data, ls_main,
                   nonListenVars>>

\* the peer closes its end
PeerClose ==
    /\ ls_peer = "connected"
    /\ ls_peer' = "closed"
    /\ UNCHANGED <<ls_sock, ls_stream, ls_sent, ls_pc, ls_client, read, ls_received, data,
                   ls_main, nonListenVars>>

\* client, addr = sock.accept()
ListenAccept ==
    /\ ls_pc = "accept" /\ ls_peer # "idle"
    /\ ls_client' = "open"
    /\ ls_pc' = "recv"
    /\ UNCHANGED <<ls_sock, ls_peer, ls_stream, ls_sent, read, ls_received, data, ls_main,
                   nonListenVars>>

\* sock.accept() on a socket the caller closed with no connection pending
ListenAcceptRaises ==
    /\ ls_pc = "accept" /\ ls_peer = "idle" /\ ls_sock = "closed"
    /\ ls_pc' = "raised"
    /\ UNCHANGED <<ls_sock, ls_peer, ls_stream, ls_sent, ls_client, read, ls_received, data,
                   ls_main, nonListenVars>>

\* read = client.recv(4096)
ListenRecv ==
    /\ ls_pc = "recv"
    /\ \/ \E k \in 1..Len(ls_stream) :
             /\ read' = Joined(ls_stream, k)
             /\ ls_stream' = SubSeq(ls_stream, k + 1, Len(ls_stream))
             /\ ls_received' = Append(ls_received, Joined(ls_stream, k))
       \/ /\ ls_stream = <<>> /\ ls_peer = "closed"
          /\ read' = <<>>
          /\ UNCHANGED <<ls_stream, ls_received>>
    /\ ls_pc' = "check"
    /\ UNCHANGED <<ls_sock, ls_peer, ls_sent, ls_client, data, ls_main, nonListenVars>>

\* if not data: break
\* data.append(read.decode(encoding))
ListenCheck ==
    /\ ls_pc = "check"
    /\ IF data = <<>>
       THEN ls_pc' = "close" /\ UNCHANGED data
       ELSE ls_pc' = "recv" /\ data' = Append(data, decode(read))
    /\ UNCHANGED <<ls_sock, ls_peer, ls_stream, ls_sent, ls_client, read, ls_received,
                   ls_main, nonListenVars>>

\* finally: client.close()
ListenClose ==
    /\ ls_pc = "close"
    /\ ls_client' = "closed"
    /\ ls_pc' = "done"
    /\ UNCHANGED <<ls_sock, ls_peer, ls_stream, ls_sent, read, ls_received, data, ls_main,
                   nonListenVars>>

\* the caller's with statement ends: finally: sock.close()
ListenExit ==
    /\ ls_main = "body"
    /\ ls_sock' = "closed"
    /\ ls_main' = "done"
    /\ UNCHANGED <<ls_peer, ls_stream, ls_sent, ls_pc, ls_client, read, ls_received, data,
                   nonListenVars>>

NextListen ==
    \/ ListenStart
    \/ PeerConnect
    \/ \E chunk \in Chunks : PeerSend(chunk)
    \/ PeerClose
    \/ ListenAccept
    \/ ListenAcceptRaises
    \/ ListenRecv
    \/ ListenCheck
    \/ ListenClose
    \/ ListenExit

SpecListen == InitListen /\ [][NextListen]_vars

(***************************************************************************)
(* Properties.                                                              *)
(***************************************************************************)
\* The words of the claims, stated on values, structures and logs.
Identical(a, b) ==
    LET c == compare_structures(a, b) IN ~c.raised /\ c.differences = <<>>

\* both values numeric, one of them NaN and the other NaN or exactly 0
InNanClass(v1, v2) ==
    /\ v1.kind = "num" /\ v2.kind = "num"
    /\ \/ v1.c[1].nan /\ (v2.c[1].nan \/ v2.c[1].n = 0)
       \/ v2.c[1].nan /\ (v1.c[1].nan \/ v1.c[1].n = 0)

ComparedKeys(g, i) == ((DOMAIN g) \cup (DOMAIN i)) \ DefaultSkipKeys
MissingKeys(g, i) == {k \in ComparedKeys(g, i) : k \notin DOMAIN g \/ k \notin DOMAIN i}
AsCompared(v) == IF HasTolist(v) THEN ToTuple(v) ELSE v
DifferingKeys(g, i) ==
    {k \in ComparedKeys(g, i) \ MissingKeys(g, i) :
        /\ ~BothNan(g[k], i[k])
        /\ ~PyEq(AsCompared(g[k]), AsCompared(i[k]))}

\* a pair with at least one differing field, every one of them in the class
AcceptedPair(g, i) ==
    /\ MissingKeys(g, i) = {}
    /\ DifferingKeys(g, i) # {}
    /\ \A k \in DifferingKeys(g, i) : InNanClass(g[k], i[k])
\* a pair with a differing field outside the class
RejectedPair(g, i) ==
    \/ MissingKeys(g, i) # {}
    \/ \E k \in DifferingKeys(g, i) : ~InNanClass(g[k], i[k])

\* differ, and only by NaN/zero fields
NanOnlyDiff(a, b) == AcceptedPair(a, b)

\* the gateway log as zipped
Zipped == IF deduplicate THEN deduplicate_events(gateway_events).events ELSE gateway_events
ZipRange == 1..(IF Len(Zipped) < Len(ioc_events) THEN Len(Zipped) ELSE Len(ioc_events))
\* the zip loop got to pair k
Reached(k) == verdict.done /\ verdict.why # "pending" /\ (verdict.idx = 0 \/ verdict.idx >= k)

\* C2 (as claimed): comparing a log with itself under the default options
\* (deduplicate, not strict, not nan_strict) returns without raising, for both
\* forms and every log.
C2_SelfComparisonPasses ==
    (verdict.done /\ gateway_events = ioc_events /\ deduplicate /\ ~strict /\ ~nan_strict)
        => ~verdict.raises

\* C3 (as claimed): for form "ctrl", two invocations whose logs differ only in
\* the values under "timestamp" both pass or both fail.
C3_CtrlVerdictIgnoresTimestamps ==
    (verdict.done /\ verdict2.done /\ form = "ctrl") => (verdict.raises = verdict2.raises)

\* C4: a zipped pair the loop gets to, whose differing fields are all NaN/zero
\* differences (and there is one), is passed over when nan_strict is off and
\* raises the NaN error at its index when nan_strict is on; a pair with a
\* differing field outside the class raises at its index whatever nan_strict is.
C4_NanClassDecidesPair ==
    verdict.done =>
      \A k \in ZipRange :
        LET g == ForForm(Zipped[k], form)
            i == ForForm(ioc_events[k], form)
        IN  Reached(k) =>
              /\ (AcceptedPair(g, i) /\ ~nan_strict) => verdict.idx # k
              /\ (AcceptedPair(g, i) /\ nan_strict) =>
                    (verdict.raises /\ verdict.idx = k /\ verdict.why = "nan_difference")
              /\ RejectedPair(g, i) =>
                    (verdict.raises /\ verdict.idx = k /\ verdict.why = "difference")

\* C4 witness: the second pair has 0 on the gateway side and NaN on the IOC
\* side, nan_strict is off and the comparison returned.
C4_Witness ==
    /\ verdict.done /\ ~verdict.raises /\ ~nan_strict
    /\ Len(Zipped) = 2 /\ Len(ioc_events) = 2
    /\ Zipped[2] = E0 /\ ioc_events[2] = ENaN

\* C5 (as claimed): strict, two identical gateway events against one IOC event
\* always raises, whatever deduplicate is.
C5_StrictRejectsDuplicateInitial ==
    (/\ verdict.done /\ strict
     /\ Len(gateway_events) = 2 /\ Len(ioc_events) = 1
     /\ Identical(gateway_events[1], gateway_events[2]))
        => verdict.raises

TwoVsOne(long, short) ==
    /\ Len(long) = 2 /\ Len(short) = 1
    /\ Identical(long[1], long[2]) \/ NanOnlyDiff(long[1], long[2])
FirstPairMatches ==
    /\ gateway_events # <<>> /\ ioc_events # <<>>
    /\ ComparePair(gateway_events[1], ioc_events[1], form, nan_strict) = "continue"
Tolerant == verdict.done /\ ~strict /\ ~nan_strict /\ FirstPairMatches

\* C6 (as claimed): not strict, not nan_strict, the first pair matches and one
\* log holds two events that are identical or differ by NaN/zero only against
\* one event in the other log: the comparison passes whichever side is longer.
C6_ToleranceEitherSide ==
    (Tolerant /\ (TwoVsOne(gateway_events, ioc_events) \/ TwoVsOne(ioc_events, gateway_events)))
        => ~verdict.raises

\* C6 (amended): the tolerance is the gateway's: with the gateway log the
\* longer side the comparison passes, with the IOC log the longer side it
\* fails on the length assertion.
C6_ToleranceGatewaySideOnly ==
    /\ (Tolerant /\ TwoVsOne(gateway_events, ioc_events)) => ~verdict.raises
    /\ (Tolerant /\ TwoVsOne(ioc_events, gateway_events)) =>
          (verdict.raises /\ verdict.why = "assert_length")

\* C6 witness: without deduplication two identical gateway events against one
\* IOC event are let through by the special case.
C6_Witness ==
    /\ Tolerant /\ ~deduplicate
    /\ TwoVsOne(gateway_events, ioc_events)
    /\ verdict.why = "gateway_duplicates_initial"

\* C7 (as claimed): structures with the same keys whose values under every
\* non-skipped key are equal or both NaN yield no difference and no error.
C7_EqualStructuresYieldNothing ==
    (/\ diff_out.called
     /\ DOMAIN struct1 = DOMAIN struct2
     /\ \A k \in (DOMAIN struct1) \ skip_keys_arg : struct1[k] = struct2[k])
        => (diff_out.raised = "none" /\ diff_out.out = <<>>)

\* C8: deduplicating the result of a deduplication changes nothing.
C8_DedupIdempotent ==
    (dd_n = 2 /\ ~dd_raised) => dd_log = dd_prev

\* C8 witness: a log of three events lost one to the first deduplication and
\* went through the second.
C8_Witness ==
    dd_n = 2 /\ ~dd_raised /\ Len(dd_in) = 3 /\ Len(dd_log) = 2

\* the callback invocations of an endpoint that have appended their event
Appended(ep) == invoked[ep] - (IF cbpc[ep] \in {"called", "locked"} THEN 1 ELSE 0)
HoldsLockToAppend(ep) == cbpc[ep] \in {"locked", "appended"} => lock = ep

\* C9 (as claimed): every invocation appends one event under the lock and the
\* log of an endpoint is, at every moment of the scenario, the sequence of the
\* events delivered so far in invocation order: nothing is ever removed.
C9_LogsAppendOnly ==
    \A ep \in Endpoints :
        /\ HoldsLockToAppend(ep)
        /\ event_list[ep] = [i \in 1..Appended(ep) |-> i]

\* C9 (amended): every invocation appends one event under the lock; the log is
\* the sequence of delivered events, in invocation order, that follow the events
\* discarded by test_subscription_with_put; that test discards once, after the
\* first drain, and test_subscription_on_connection never does.
C9_LogsAppendOnlyButInitialDiscard ==
    /\ discards <= 1
    /\ scenario = "on_connection" => discards = 0
    /\ \A ep \in Endpoints :
        /\ HoldsLockToAppend(ep)
        /\ dropped[ep] <= Appended(ep)
        /\ discards = 0 => dropped[ep] = 0
        /\ event_list[ep] = [i \in 1..(Appended(ep) - dropped[ep]) |-> dropped[ep] + i]

\* C9 witness: test_subscription_with_put ended with one discarded IOC event
\* and the two that were delivered after the discard.
C9_Witness ==
    /\ scenario = "with_put" /\ tpc = "compare"
    /\ dropped["ioc"] = 1
    /\ event_list["ioc"] = <<2, 3>>

\* C10: once a target-count loop has been left normally both logs hold their
\* target counts; once a target wait has timed out the test thread does nothing
\* but fail: it is still inside that wait or it has failed.
C10_TargetWait ==
    /\ (tpc \in {"drain", "wait_drain", "discard"} /\ discards = 0)
          => \A ep \in Endpoints : event_list[ep] # <<>>
    /\ (scenario = "on_connection" /\ tpc = "compare")
          => \A ep \in Endpoints : event_list[ep] # <<>>
    /\ (nput >= 1 /\ tpc \in {"set_target", "lock_drain", "drain", "wait_drain", "compare"})
          => \A ep \in Endpoints : Len(event_list[ep]) >= target[ep]
    /\ timed_out =>
          \/ tpc = "failed"
          \/ tpc \in {"wait_initial", "wait_put"} /\ waiter = "timedout"

\* C10 witness: after a put the IOC's event arrived, the gateway's did not, the
\* wait timed out and the scenario failed.
C10_Witness ==
    /\ tpc = "failed" /\ timed_out /\ discards = 1
    /\ Len(event_list["ioc"]) >= target["ioc"]
    /\ Len(event_list["gateway"]) < target["gateway"]

\* the teardown calls made so far: sleep, close or terminate, wait, join
Signals == n_close + n_terminate
ExpectedSleeps == IF quiescence_period > 0 THEN 1 ELSE 0

\* C1: a spawned process is torn down exactly once whether the with body
\* returned or raised: the finally block is entered once and only after the
\* body ended, no teardown call is made twice, the calls are made in order
\* (sleep, close or terminate, wait, join), and a scope that closed without a
\* teardown call itself raising has made each of them once (the sleep only for
\* a quiescence period above 0).
C1_TeardownOnce ==
    /\ td_entered <= 1 /\ n_sleep <= 1 /\ Signals <= 1 /\ n_wait <= 1 /\ n_join <= 1
    /\ td_entered = 1 => body \in {"returned", "raised"}
    /\ n_sleep + Signals + n_wait + n_join > 0 => td_entered = 1
    /\ Signals = 1 => n_sleep = ExpectedSleeps
    /\ n_wait = 1 => Signals = 1
    /\ n_join = 1 => n_wait = 1
    /\ (ppc = "closed" /\ proc # "none") => td_entered = 1
    /\ (ppc = "closed" /\ exc # "teardown") =>
          /\ n_sleep = ExpectedSleeps
          /\ n_close = (IF interactive THEN 1 ELSE 0)
          /\ n_terminate = (IF interactive THEN 0 ELSE 1)
          /\ n_wait = 1
          /\ n_join = 1

\* C1 witness: the body raised, and the scope closed after the quiescence
\* sleep, the terminate, the wait and the join.
C1_Witness ==
    /\ ppc = "closed" /\ body = "raised" /\ exc = "body"
    /\ quiescence_period > 0 /\ ~interactive
    /\ n_sleep = 1 /\ n_terminate = 1 /\ n_wait = 1 /\ n_join = 1

\* C11: once the expected count was reached and asserted, an event counted
\* before the end of the last wait makes the test fail, also an event counted
\* after the count assertion and before that wait started: a test that passed
\* started its last wait with exactly the expected count.
C11_ExtraEventDetected ==
    vpc = "passed" => at_silence = ExpectedEvents

\* C12: the Draining phase always terminates: the target-count loop and the
\* silence loop end, in success or in failure, whatever the endpoints
\* deliver, also when an endpoint keeps delivering faster than the timeout.
C12_DrainingTerminates == <>(tpc \in {"compare", "failed"})

\* C13: context_set_env(key, value): inside the scope os.environ[key] is
\* str(value); after the scope is left, by return or by exception, every key
\* is as it was before the scope was entered (the prior value, or absent if
\* it was absent), also for a scope nested in another one of the same key.
C13_EnvRestoredOnExit ==
    /\ scopes # <<>> =>
          environ[scopes[Len(scopes)].key] = scopes[Len(scopes)].installed
    /\ \A i \in 1..Len(exited) : exited[i].after = exited[i].before

\* the history steps: every b has an a before it
Did(a) == \E i \in 1..Len(steps) : steps[i] = a
Precedes(a, b) ==
    \A j \in 1..Len(steps) : steps[j] = b => \E i \in 1..(j - 1) : steps[i] = a

\* C14: the IOC is spawned and its readiness wait completed before the
\* gateway is spawned; the client addressing is overridden and the client
\* reset only after both processes were started.
C14_BackingProcessFirst ==
    /\ Precedes(Step("ready", "ioc"), Step("spawn", "gateway"))
    /\ Precedes(Step("ready", "ioc"), Step("set_addr", "client"))
    /\ Precedes(Step("ready", "gateway"), Step("set_addr", "client"))
    /\ Precedes(Step("set_addr", "client"), Step("reset", "client"))

StopSteps(p) == {Step("signal", p), Step("signal_failed", p)}
RestoreSteps == {Step("restore", "client"), Step("restore_failed", "client")}
AnyPrecedes(as, bs) ==
    \A j \in 1..Len(steps) : steps[j] \in bs => \E i \in 1..(j - 1) : steps[i] \in as

\* C15: on exit from an environment that was set up, the addressing is
\* restored first, then the gateway is stopped, then the IOC.
C15_TeardownRelayBeforeBacking ==
    Did(Step("body", "test")) =>
        /\ AnyPrecedes(RestoreSteps, StopSteps("gateway"))
        /\ AnyPrecedes(StopSteps("gateway"), StopSteps("ioc"))

Spawned(p) == Did(Step("spawn", p))
StopAttempted(p) == \E i \in 1..Len(steps) : steps[i] \in StopSteps(p)
RestoreAttempted == \E i \in 1..Len(steps) : steps[i] \in RestoreSteps

\* C16: once the with statement is over, every release step was attempted
\* whatever failed: the addressing that was set has had its restore, and
\* every process that was spawned has had its stop signal and, unless that
\* signal itself raised, has been waited for -- also when the restore or the
\* stop of the other process raised, and when the second process failed to
\* start or the client reset failed.
C16_EveryReleaseAttempted ==
    fpc = "closed" =>
        /\ Did(Step("set_addr", "client")) => RestoreAttempted
        /\ \A p \in {"gateway", "ioc"} :
              Spawned(p) =>
                  /\ StopAttempted(p)
                  /\ Did(Step("signal", p)) => Did(Step("wait", p))

\* C16 witness: the restore raised and stopping the IOC raised, and the
\* gateway was still terminated and waited for.
C16_Witness ==
    /\ fpc = "closed"
    /\ Did(Step("restore_failed", "client"))
    /\ Did(Step("signal_failed", "ioc"))
    /\ Did(Step("wait", "gateway"))

\* C17: run_process waits for the readiness event for at most startup_time.
\* A wait that ends by timeout, with the pattern not seen, raises nothing and
\* the process is yielded to the with body; once the event is set the wait
\* spends no more time and returns before startup_time is over.
C17_StartupWaitBounded ==
    /\ [](/\ elapsed <= StartupTime
          /\ startup = "timeout" => (elapsed = StartupTime /\ body # "none")
          /\ startup = "set" => event
          /\ startup # "pending" => ppc \notin {"popen", "start_slurp", "event_wait"}
          /\ exc \in {"none", "body", "teardown"})
    /\ [][(ppc = "event_wait" /\ event) => elapsed' = elapsed]_vars

\* C17 witness: the wait timed out with the pattern not seen, and the with
\* body runs with the process.
C17_Witness ==
    startup = "timeout" /\ ~event /\ wait_for # "none" /\ ppc = "body" /\ body = "running"

\* C18: when the readiness pattern has not appeared within the timeout, a
\* readiness failure is raised to the scenario instead of the process being
\* handed to the with body, and the process is torn down all the same.
C18_ReadinessTimeoutSurfaced ==
    (wait_for # "none" /\ startup = "timeout") =>
        /\ body = "none"
        /\ ppc = "closed" => (exc = "readiness" /\ Signals = 1 /\ n_wait = 1 /\ n_join = 1)

Torn == ppc \in {"wait", "join"} \/ (ppc = "closed" /\ exc # "teardown")

\* C19: teardown of an interactive process closes its stdin and never sends
\* a terminate signal; teardown of a non-interactive process sends the
\* terminate signal and never closes stdin; either way the process is then
\* waited for, and has exited, before the scope is closed.
C19_SignalByInteractive ==
    /\ interactive => (n_terminate = 0 /\ ~term_sent)
    /\ ~interactive => (n_close = 0 /\ (proc # "none" => stdin_open))
    /\ (Torn /\ interactive) => (n_close = 1 /\ ~stdin_open)
    /\ (Torn /\ ~interactive) => (n_terminate = 1 /\ term_sent)
    /\ n_wait = 1 => (Signals = 1 /\ proc = "exited")
    /\ (ppc = "closed" /\ exc # "teardown") => n_wait = 1

\* C19 witness: an interactive process whose scope closed after its stdin
\* was closed and it was waited for.
C19_Witness ==
    /\ ppc = "closed" /\ interactive /\ ~stdin_open /\ n_close = 1
    /\ n_terminate = 0 /\ n_wait = 1 /\ proc = "exited"

\* C20: with quiescence_period > 0 the whole sleep is over before stdin is
\* closed or the terminate signal sent; with quiescence_period = 0 nothing
\* is slept before the signal.
C20_QuiescenceBeforeSignal ==
    /\ slept <= quiescence_period
    /\ Signals >= 1 => (slept = quiescence_period /\ n_sleep = ExpectedSleeps)
    /\ quiescence_period = 0 => (n_sleep = 0 /\ slept = 0)

\* C20 witness: a period of more than one unit of time was slept in full and
\* the terminate signal was sent.
C20_Witness ==
    quiescence_period > 1 /\ slept = quiescence_period /\ n_sleep = 1 /\ n_terminate = 1

\* C21: teardown never blocks for ever on a process that does not exit after
\* the signal: the wait for the process ends, with the process gone or with a
\* termination failure raised.
C21_WaitForExitEnds == (ppc = "wait") ~> (ppc \in {"join", "closed"})

\* C22: on every exit path of run_process, also when a teardown step raised,
\* the thread slurp has been joined (and has ended) once the scope of a
\* spawned process is closed.
C22_DrainJoinedOnEveryExit ==
    (ppc = "closed" /\ proc # "none") => (n_join = 1 /\ slurp = "done")

\* C23: no output is lost: when the stream has closed, the captured output
\* holds every line that was read, the ones read before readiness and the
\* ones read after it, in the order read.
C23_CapturedOutputComplete ==
    /\ Len(lines) + Len(startup_lines) + Len(pipe) = emitted
    /\ slurp = "done" => stdout = lines \o startup_lines

\* keys of the union that are not skipped and that one structure lacks
MissingUnskipped ==
    {k \in ((DOMAIN struct1) \cup (DOMAIN struct2)) \ skip_keys_arg :
        k \notin DOMAIN struct1 \/ k \notin DOMAIN struct2}

\* C30: find_differences raises exactly when a key outside skip_keys is
\* missing from one of the structures, naming a structure that lacks one;
\* no reported difference is for a missing key or for a key of skip_keys, and
\* a skipped key never raises, missing or not.
C30_MissingKeyRaises ==
    diff_out.called =>
        /\ (diff_out.raised # "none") <=> (MissingUnskipped # {})
        /\ diff_out.raised = "struct1" => \E k \in MissingUnskipped : k \notin DOMAIN struct1
        /\ diff_out.raised = "struct2" => \E k \in MissingUnskipped : k \notin DOMAIN struct2
        /\ \A i \in 1..Len(diff_out.out) :
              /\ diff_out.out[i][1] \notin skip_keys_arg
              /\ diff_out.out[i][1] \in (DOMAIN struct1) \cap (DOMAIN struct2)

\* C30 witness: a skipped key is missing from the first structure, an earlier
\* key differs and was reported, and a later key missing from the second
\* structure raised.
C30_Witness ==
    /\ diff_out.called
    /\ "chid" \in skip_keys_arg /\ "chid" \notin DOMAIN struct1 /\ "chid" \in DOMAIN struct2
    /\ diff_out.raised = "struct2"
    /\ Len(diff_out.out) = 1

FilesWritten == Step("write_files", "custom_environment")
FilesClosed == Step("close_files", "custom_environment")

\* C27: in custom_environment the temporary files are written and flushed
\* before either process is spawned, they are removed only after every
\* process that was spawned has had its stop (signal and, unless the signal
\* raised, wait), and on every exit path they have been removed once the
\* scope is closed.
C27_TempFilesSpanProcesses ==
    fixture = "custom_environment" =>
        /\ \A p \in {"gateway", "ioc"} :
              /\ Precedes(FilesWritten, Step("spawn", p))
              /\ Precedes(FilesWritten, Step("spawn_failed", p))
              /\ (Did(FilesClosed) /\ Spawned(p)) =>
                    (StopAttempted(p) /\ (Did(Step("signal", p)) => Did(Step("wait", p))))
        /\ Did(FilesClosed) => (entered = <<>> /\ fpc = "closed")
        /\ fpc = "closed" => Did(FilesClosed)

\* C27 witness: the test body raised, both processes were stopped and the
\* files were then removed.
C27_Witness ==
    /\ fixture = "custom_environment" /\ fpc = "closed" /\ pending = "body"
    /\ Did(Step("wait", "ioc")) /\ Did(Step("wait", "gateway"))
    /\ steps[Len(steps)] = FilesClosed

\* C28: test_value_no_deadband passes only if exactly the expected number of
\* events was delivered on each endpoint, the gateway and the IOC.
C28_BothEndpointsCounted ==
    vpc = "passed" => (at_silence = ExpectedEvents /\ ioc_delivered = ExpectedEvents)

\* C24: local_channel_access resets the client only once both variables are
\* installed (EPICS_CA_AUTO_ADDR_LIST = NO and EPICS_CA_ADDR_LIST naming the
\* IOC and the gateway), its body runs only after that reset, and while the
\* body is the innermost one running the address list names exactly the two.
C24_ResetAfterBothInstalled ==
    \A i \in 1..Len(ca_stack) :
        LET f == ca_stack[i]
        IN  /\ f.reset <=> f.phase = "body"
            /\ (f.reset /\ f.name = "local_channel_access") =>
                  /\ f.reset_env["EPICS_CA_AUTO_ADDR_LIST"] = "NO"
                  /\ f.reset_env["EPICS_CA_ADDR_LIST"] = "localhost:62782 localhost:62783"
            /\ (i = Len(ca_stack) /\ f.phase = "body") => environ = f.reset_env

\* C24 witness: the body of local_channel_access is running, entered inside a
\* gateway-only scope.
C24_Witness ==
    /\ Len(ca_stack) = 2
    /\ ca_stack[1].name = "gateway_channel_access_env"
    /\ ca_stack[2].name = "local_channel_access" /\ ca_stack[2].phase = "body"
    /\ environ["EPICS_CA_ADDR_LIST"] = "localhost:62782 localhost:62783"

\* C25: every change of the addressing environment is followed by a reset
\* of the client before the client is used again, on entry to a scope and
\* when a scope exits and restores the previous address list: the client is
\* only ever used under the environment it was last reset under.
C25_ResetAfterEveryChange ==
    \A i \in 1..Len(used) : used[i].libca = used[i].env

\* a connection attempt of the operation timed out
ConnectFailed == chpc \in {"finally", "clear_channel", "done"} /\ n_connect > 0 /\ ~connected

\* C26: when the channel does not connect within the timeout, the operation
\* (ca_subscription, pyepics_caget, pyepics_caput) has made exactly one
\* connection attempt, makes no subscription, get or put, raises instead of
\* returning, and once it is over has cleared the channel exactly once and
\* no subscription.
C26_ConnectFailureClearsOnce ==
    ConnectFailed =>
        /\ n_connect = 1
        /\ ch_elapsed = timeout
        /\ n_request = 0
        /\ n_clear_subscription = 0
        /\ ch_outcome \in {"AssertionError", "ChannelAccessException"}
        /\ n_clear_channel = IF chpc = "done" THEN 1 ELSE 0

\* C26 witness: a ca_subscription whose channel never connected is over,
\* failed by the assertion, the channel cleared.
C26_Witness ==
    /\ operation = "ca_subscription"
    /\ chpc = "done"
    /\ n_connect = 1 /\ ~connected
    /\ ch_outcome = "AssertionError"
    /\ n_clear_channel = 1

\* some delivered event carries the severity of the one delivered before it
RepeatedSeverity == \E i \in 1..(Len(sev_log) - 1) : sev_log[i] = sev_log[i + 1]

\* C29: in the alarm-level scenario the record, written 0..10..0, posts
\* exactly the 6 events the test expects (the one at connection, INVALID,
\* and one per change of severity: NO_ALARM, MINOR, MAJOR, MINOR, NO_ALARM);
\* the count assertion lets the test go on with exactly 6 events received;
\* and the test does not pass if a delivered event carries the severity of
\* the event delivered before it.
C29_AlarmLevelEvents ==
    /\ [](/\ written = Len(AlarmValues) => posted = ExpectedAlarmEvents
          /\ (written = Len(AlarmValues) /\ redelivered = 0 /\ queue = <<>>) =>
                sev_log = <<INVALID, NO_ALARM, MINOR, MAJOR, MINOR, NO_ALARM>>
          /\ severity_unchanged = Cardinality({i \in 1..(Len(sev_log) - 1) :
                                                  sev_log[i] = sev_log[i + 1]})
          /\ apc = "passed" => ~RepeatedSeverity)
    /\ [][(apc = "assert_count" /\ apc' = "lock_silence") =>
             alarm_events_received = ExpectedAlarmEvents]_vars

\* C29 witness: the test failed on its last assertion alone: 6 events were
\* counted, a seventh with an unchanged severity came unnoticed by the wait.
C29_Witness ==
    /\ apc = "failed"
    /\ ~alarm_notified
    /\ alarm_events_received = ExpectedAlarmEvents + 1
    /\ RepeatedSeverity

\* the lines read_stdout has read so far, in order
LinesRead == lines \o startup_lines
Matches(line) == wait_for # "none" /\ line = "ready"

\* C31: the readiness event changes only in a step of read_stdout that reads
\* a line containing wait_for, and only from unset to set; it is set exactly
\* when a line read so far contains wait_for, the first such line being the
\* last of the lines read before the event was set; with wait_for None or no
\* matching line it is unset.
C31_ReadinessSetOnceByDrain ==
    /\ [](/\ event <=> \E i \in 1..Len(LinesRead) : Matches(LinesRead[i])
          /\ event => /\ lines # <<>>
                      /\ Matches(lines[Len(lines)])
                      /\ \A i \in 1..(Len(lines) - 1) : ~Matches(lines[i])
          /\ ~event => startup_lines = <<>>
          /\ wait_for = "none" => ~event)
    /\ [][event' # event =>
             /\ ~event /\ event'
             /\ slurp = "reading" /\ pipe # <<>> /\ Matches(Head(pipe))
             /\ pipe' = Tail(pipe)]_vars

\* C31 witness: a second matching line was read after the event was set.
C31_Witness ==
    /\ event
    /\ startup_lines # <<>>
    /\ Matches(startup_lines[1])

\* the events of log at the indices in keep, in the order of log
RECURSIVE EventsAt(_, _, _)
EventsAt(log, keep, i) ==
    IF i > Len(log) THEN <<>>
    ELSE IF i \in keep THEN <<log[i]>> \o EventsAt(log, keep, i + 1)
    ELSE EventsAt(log, keep, i + 1)

\* the indices of the events of log that are the first one or are not
\* identical to the event just before them in log
NotRepeating(log) ==
    {i \in 1..Len(log) : i = 1 \/ ~Identical(log[i - 1], log[i])}

\* C32: when deduplicate_events(L) returns, its result is L without exactly
\* the events that are identical, under compare_structures, to the event
\* just before them in L: the first event is kept, the order is kept, no two
\* adjacent events of the result are identical, and the empty log gives the
\* empty log.
C32_DropsRepeatsOfPredecessor ==
    (dd_n = 1 /\ ~dd_raised) =>
        /\ dd_log = EventsAt(dd_in, NotRepeating(dd_in), 1)
        /\ dd_in # <<>> => (dd_log # <<>> /\ dd_log[1] = dd_in[1])
        /\ dd_in = <<>> => dd_log = <<>>
        /\ \A i \in 1..(Len(dd_log) - 1) : ~Identical(dd_log[i], dd_log[i + 1])

\* C32 witness: of three events the second repeated the first and was
\* dropped, the third was kept.
C32_Witness ==
    /\ dd_n = 1 /\ ~dd_raised
    /\ Len(dd_in) = 3
    /\ Identical(dd_in[1], dd_in[2])
    /\ dd_log = <<dd_in[1], dd_in[3]>>

\* no event of log is identical to the event just before it
NoAdjacentIdentical(log) == \A i \in 1..(Len(log) - 1) : ~Identical(log[i], log[i + 1])

\* C33 (as claimed): with deduplicate=True both sequences handed to the zip,
\* the IOC one as well as the gateway one, are free of adjacent identical
\* events.
C33_BothLogsDeduplicated ==
    (verdict.done /\ deduplicate) =>
        (NoAdjacentIdentical(zipped.gateway) /\ NoAdjacentIdentical(zipped.ioc))

\* C34: whatever the state of the client library when reset_libca is called
\* (never initialized, initialized, finalized), it is initialized when
\* reset_libca is over; from an initialized library the calls are
\* finalize_libca, clear_cache, each once, and then the re-initialization;
\* from the other two states nothing is finalized; and initialize_libca is
\* never called by it on an initialized library.
C34_ResetLeavesInitialized ==
    /\ rpc = "done" =>
          /\ ca_library = "initialized"
          /\ calls = IF prior = "initialized"
                     THEN <<"finalize_libca", "clear_cache", "gc.collect", "initialize_libca">>
                     ELSE <<"gc.collect", "initialize_libca">>
    /\ rpc = "initialize_libca" => ca_library # "initialized"
    /\ rpc = "clear_cache" => (prior = "initialized" /\ ca_library = "finalized")

\* C34 witness: a reset of an initialized library is over.
C34_Witness ==
    /\ rpc = "done"
    /\ prior = "initialized"
    /\ Len(calls) = 4

C39_OwnSocketClosedOnEveryExit ==
    /\ cgpc = "done" => own_sock # "open"
    /\ given_sock # "closed"

\* C36 (as claimed): the wait that saw the target counts, the assertion
\* that the counters are equal and the comparison of the structures all read
\* the same counters and the same two structures: no callback changes them
\* in between.
C36_ConsistentView ==
    \A i, j \in 1..Len(st_view) : st_view[i] = st_view[j]

\* positions of a call on the client library in the calls made so far
PairPositions(name, ep) ==
    {i \in 1..Len(pair_calls) : pair_calls[i] = <<name, ep>>}
PairClears(ep) == PairPositions("clear_subscription", ep) \cup PairPositions("clear_channel", ep)

AcceptedLengths(gw, ioc) == Len(gw) = Len(ioc) \/ (Len(gw) = 2 /\ Len(ioc) = 1)
AllZippedMatch == ZipCompare(zipped.gateway, zipped.ioc, form, nan_strict).why = "exhausted"

\* C38: compare_subscription_events returns normally only with the two
\* sequences it zipped (the gateway's after deduplication) of equal length, or
\* of lengths 2 (gateway) and 1 (IOC); with any other lengths it raises, and
\* when every zipped pair matched it is the length assertion that raises.
C38_LengthRule ==
    verdict.done =>
        /\ ~verdict.raises => AcceptedLengths(zipped.gateway, zipped.ioc)
        /\ ~AcceptedLengths(zipped.gateway, zipped.ioc) => verdict.raises
        /\ (~AcceptedLengths(zipped.gateway, zipped.ioc) /\ AllZippedMatch) =>
              verdict.why = "assert_length"

\* C38 witness: two gateway events deduplicated to one against two IOC
\* events; the one zipped pair matched and the length assertion failed.
C38_Witness ==
    /\ verdict.done /\ deduplicate
    /\ Len(gateway_events) = 2 /\ Len(zipped.gateway) = 1 /\ Len(zipped.ioc) = 2
    /\ AllZippedMatch
    /\ verdict.raises /\ verdict.why = "assert_length"

\* C40 (as claimed): between reads the yielded list holds, decoded and in
\* arrival order, every non-empty chunk received from the client so far; the
\* listener leaves its loop only on an empty read and then closes the client.
C40_ListHoldsReceivedChunks ==
    /\ ls_pc \in {"recv", "close", "done"} =>
          data = [i \in 1..Len(ls_received) |-> decode(ls_received[i])]
    /\ ls_pc \in {"close", "done"} => read = <<>>
    /\ ls_pc = "done" => ls_client = "closed"

====
